---- MODULE Spec2Model ----
(***************************************************************************)
(* Model of the RAG subsystem of Oraculo-BOT: the document processor       *)
(* (src/rag/document_processor.py), the vector store wrapper               *)
(* (src/rag/vector_store.py) and the orchestrator (src/rag/rag_system.py). *)
(*                                                                         *)
(* Texts are sequences of one-character strings.  The persistent index     *)
(* (a ChromaDB collection) is a sequence of records in insertion order,    *)
(* keyed by record id: PersistentClient collections ignore an add() whose  *)
(* id is already present.  Coroutines are interleaved at their awaits: the *)
(* only await inside add_document is the embedding call of store_document. *)
(***************************************************************************)
EXTENDS Integers, Sequences, FiniteSets, TLC

(***************************************************************************)
(* Bounds of the model.                                                    *)
(***************************************************************************)
NumTasks == 2

Tasks == 1..NumTasks

(* Extracted texts offered to add_document: whitespace only, one chunk,    *)
(* and two chunks under the configurations below.                          *)
Contents ==
    { <<" ", "\n">>,
      <<"a", "a">>,
      <<"a", ".", " ", "a">> }

(* The deployments an orchestrator is built in: chunk_size, chunk_overlap  *)
(* and whether an embedding client is configured.  The second violates     *)
(* overlap < chunk_size, the third 0 <= overlap, the last has no embedding *)
(* client.                                                                 *)
Setups ==
    { <<2, 0, TRUE>>, <<2, 2, TRUE>>, <<2, -1, TRUE>>, <<3, 1, FALSE>> }

(***************************************************************************)
(* Program constants.                                                      *)
(***************************************************************************)
LoadLimit == 1000

CleanupLimit == 10000

(***************************************************************************)
(* Text helpers (Python str semantics on sequences of characters).         *)
(***************************************************************************)
Max(a, b) == IF a >= b THEN a ELSE b

Min(a, b) == IF a <= b THEN a ELSE b

IsWS(c) == c \in {" ", "\n", "\t"}

RECURSIVE LStrip(_)
LStrip(s) ==
    IF s = <<>> THEN s
    ELSE IF IsWS(Head(s)) THEN LStrip(Tail(s)) ELSE s

RECURSIVE RStrip(_)
RStrip(s) ==
    IF s = <<>> THEN s
    ELSE IF IsWS(s[Len(s)]) THEN RStrip(SubSeq(s, 1, Len(s) - 1)) ELSE s

(* str.strip() *)
Strip(s) == RStrip(LStrip(s))

(* text[a:b] with 0-based, end-exclusive, clipped indices *)
Slice(s, a, b) == SubSeq(s, a + 1, Min(b, Len(s)))

(* str.rfind(sub): highest 0-based index of an occurrence, or -1 *)
RFind(s, sub) ==
    LET hits == { i \in 0..(Len(s) - Len(sub)) :
                    SubSeq(s, i + 1, i + Len(sub)) = sub }
    IN  IF hits = {} THEN -1
        ELSE CHOOSE i \in hits : \A j \in hits : j <= i

MaxOf(S) == CHOOSE x \in S : \A y \in S : y <= x

(***************************************************************************)
(* DocumentProcessor                                                       *)
(***************************************************************************)
CharCodes == <<"a", " ", ".", "\n", "!", "?", "\t">>

CharCode(c) == CHOOSE i \in 1..Len(CharCodes) : CharCodes[i] = c

HashBase == Len(CharCodes) + 1

(* get_document_hash: a digest computed from the characters of the text.   *)
(* The positional encoding is collision free, as SHA-256 is taken to be.   *)
RECURSIVE get_document_hash(_)
get_document_hash(content) ==
    IF content = <<>> THEN 0
    ELSE get_document_hash(SubSeq(content, 1, Len(content) - 1)) * HashBase
         + CharCode(content[Len(content)])

(* Variant: only chunk_size is checked. *)
ChunkParamsValid_SizeOnly(chunk_size, overlap) == ~(chunk_size <= 0)

(* Variant: an overlap equal to chunk_size passes. *)
ChunkParamsValid_OverlapEqual(chunk_size, overlap) ==
    /\ ~(chunk_size <= 0)
    /\ ~(overlap > chunk_size)
    /\ ~(overlap < 0)

(* The three parameter checks at the top of chunk_text. *)
ChunkParamsValid(chunk_size, overlap) ==
    /\ ~(chunk_size <= 0)
    /\ ~(overlap >= chunk_size)
    /\ ~(overlap < 0)

(* The cut position of the window starting at start (the value of `end`    *)
(* when the chunk is sliced).  The float tests  x > chunk_size * 0.7  and  *)
(* x > chunk_size * 0.8  are exact in integers for chunk_size < 90.        *)
CutEnd(text, chunk_size, start) ==
    LET end == start + chunk_size
        window == Slice(text, start, end)
        last_sentence_end ==
            MaxOf({ RFind(window, <<".", " ">>),
                    RFind(window, <<".", "\n">>),
                    RFind(window, <<"!", " ">>),
                    RFind(window, <<"?", "\n">>),
                    RFind(window, <<"\n", "\n">>) })
        last_space == RFind(window, <<" ">>)
    IN  IF end < Len(text)
        THEN IF 10 * last_sentence_end > 7 * chunk_size
             THEN start + last_sentence_end + 1
             ELSE IF 10 * last_space > 8 * chunk_size
                  THEN start + last_space
                  ELSE end
        ELSE end

RECURSIVE ChunkFrom(_, _, _, _)
ChunkFrom(text, chunk_size, overlap, start) ==
    IF ~(start < Len(text)) THEN <<>>
    ELSE LET end == CutEnd(text, chunk_size, start)
             chunk == Strip(Slice(text, start, end))
             next == Max(start + 1, end - overlap)
         IN  (IF chunk # <<>> THEN <<chunk>> ELSE <<>>)
             \o ChunkFrom(text, chunk_size, overlap, next)

(* chunk_text for parameters that pass the checks. *)
chunk_text(text, chunk_size, overlap) == ChunkFrom(text, chunk_size, overlap, 0)


(* get_document_metadata: the metadata id of a document, and so of every   *)
(* chunk of it, is the content hash.  The fields taken from the file path  *)
(* (filename, file_path, file_size, mime_type, extension) and processed_at *)
(* are written to the record and read by no operation; they are left out.  *)
NoId == <<"none", 0>>

NoHash == -1

HashId(h) == <<"sha256", h>>

DocId(n) == <<"doc", n>>

get_document_metadata(content) ==
    [ id |-> HashId(get_document_hash(content)),
      content_hash |-> get_document_hash(content) ]

(***************************************************************************)
(* VectorStore                                                             *)
(***************************************************************************)
RECURSIVE SelectSeq2(_, _)
SelectSeq2(s, keep) ==
    IF s = <<>> THEN <<>>
    ELSE (IF Head(s).id \in keep THEN <<Head(s)>> ELSE <<>>)
         \o SelectSeq2(Tail(s), keep)

StoreIds(coll) == { coll[k].id : k \in 1..Len(coll) }

(* collection.add of one record: the index is keyed by id, an id that is   *)
(* already present is left as it is.                                       *)
collection_add(coll, rec) ==
    IF rec.id \in StoreIds(coll) THEN coll ELSE Append(coll, rec)

(* collection.delete(ids=[doc_id]): removes the record if there is one.    *)
collection_delete(coll, doc_id) ==
    SelectSeq2(coll, StoreIds(coll) \ {doc_id})

(* doc_id = metadata.get('id', f"doc_{len(self.collection.get()['ids'])}") *)
store_doc_id(coll, metadata) ==
    IF metadata.id # NoId THEN metadata.id ELSE DocId(Len(coll))

(* The record store_document persists for a chunk. *)
store_record(coll, text, metadata) ==
    [ id |-> store_doc_id(coll, metadata),
      text |-> text,
      meta_id |-> metadata.id,
      content_hash |-> metadata.content_hash,
      chunk_index |-> metadata.chunk_index,
      total_chunks |-> metadata.total_chunks ]

(* list_documents(limit): the metadata of the first `limit` records. *)
list_documents(coll, limit) == SubSeq(coll, 1, Min(limit, Len(coll)))

RecordsWithHash(coll, h) == { k \in 1..Len(coll) : coll[k].content_hash = h }

(***************************************************************************)
(* State                                                                   *)
(***************************************************************************)
VARIABLES
    config,            \* <<chunk_size, chunk_overlap>> of the orchestrator
    openai_client,     \* TRUE iff the store has an embedding client
    store,             \* the collection: records in insertion order
    processed_hashes,  \* RAGSystem.processed_hashes
    calls,             \* per task: the add_document call it runs or ran
    succeeded,         \* history: hashes a call of this orchestrator committed
    partial,           \* history: hashes a call of this orchestrator left
                       \* chunks of without committing, not committed since
    stale,             \* history: the same, for calls of earlier orchestrators
    ret,               \* the last call of a store operation or of
                       \* retrieve_context: its arguments and what it returned
    relay_config,      \* OpenRouterChatClient: _rag_enabled, _system_prompt,
                       \* _max_turns
    history,           \* OpenRouterChatClient._history: per channel the deque
    locks,             \* OpenRouterChatClient._locks: per channel the lock
    turns,             \* per task: the on_message call it runs
    accepted,          \* number of messages on_message has taken up
    http_call,         \* the query_chat call of an OpenRouterClient
    warn_file,         \* ModerationLogger: content of the warnings file
    warn_lock,         \* ModerationLogger._warn_lock
    warn_calls         \* per task: the warn_user call it runs or ran

ragVars == <<config, openai_client, store, processed_hashes, calls,
             succeeded, partial, stale, ret>>

relayVars == <<relay_config, history, locks, turns, accepted>>

modVars == <<warn_file, warn_lock, warn_calls>>

botVars == <<relayVars, http_call, modVars>>

vars == <<config, openai_client, store, processed_hashes, calls,
          succeeded, partial, stale, ret, relay_config, history, locks,
          turns, accepted, http_call, warn_file, warn_lock, warn_calls>>

(* Discord channels messages arrive on. *)
Channels == {1, 2}

(* asyncio.Lock(): nobody holds it, nobody waits for it. *)
Unlocked == [ holder |-> 0, waiters |-> <<>> ]

(* A task that handles no message. *)
NoTurn ==
    [ pc |-> "idle", channel |-> 0, content |-> "", payload |-> <<>>,
      rag_called |-> FALSE, rag_query |-> "", rag_would |-> "" ]

(* No query_chat call has been made. *)
NoHttpCall == [ pc |-> "idle", attempts |-> <<>>, raised |-> "", value |-> "" ]

(* The users warned. *)
WarnedUsers == {1, 2}

(* Warnings a user can have stored before no further warn command is taken *)
(* up.                                                                     *)
MaxWarns == 3

(* The warnings of a file or of a call that holds none: `{}`. *)
NoWarns == [u \in WarnedUsers |-> 0]

(* No warnings file on disk. *)
NoWarnFile == [ kind |-> "absent", warns |-> NoWarns ]

(* The number of warnings the file holds for a user. *)
StoredWarns(user) ==
    IF warn_file.kind = "valid" THEN warn_file.warns[user] ELSE 0

(* A task that has not called warn_user. *)
NoWarnCall == [ pc |-> "idle", user |-> 0, warns |-> NoWarns, result |-> -1 ]

(* The bot as constructed with RAG off and the default prompt and turns,   *)
(* before any message, completion call or warning.                         *)
BotIdle ==
    /\ relay_config = [ rag_enabled |-> FALSE, system_prompt |-> "sys",
                        max_turns |-> 6 ]
    /\ history = [c \in Channels |-> <<>>]
    /\ locks = [c \in Channels |-> Unlocked]
    /\ turns = [t \in Tasks |-> NoTurn]
    /\ accepted = 0
    /\ http_call = NoHttpCall
    /\ warn_file = NoWarnFile
    /\ warn_lock = Unlocked
    /\ warn_calls = [t \in Tasks |-> NoWarnCall]

(* No store operation and no retrieve_context has been called. *)
NoRet == [ op |-> "none" ]

NoResult ==
    [ success |-> FALSE, duplicate |-> FALSE, error |-> "",
      content_hash |-> NoHash, chunks_stored |-> -1, total_chunks |-> -1 ]

(* Variant: every failure result carries the duplicate flag. *)
Failure_Flagged(msg) == [ NoResult EXCEPT !.error = msg, !.duplicate = TRUE ]

(* {'success': False, 'error': msg, 'document_id': None} *)
Failure(msg) == [ NoResult EXCEPT !.error = msg ]

(* The duplicate result: the only one with a 'duplicate' key. *)
DuplicateResult ==
    [ NoResult EXCEPT !.error = "Document already processed (duplicate content)",
                      !.duplicate = TRUE ]

SuccessResult(h, n_stored, n_chunks) ==
    [ NoResult EXCEPT !.success = TRUE, !.content_hash = h,
                      !.chunks_stored = n_stored, !.total_chunks = n_chunks ]

NoFile == [kind |-> "none", content |-> <<>>]

IdleCall ==
    [ pc |-> "idle", file |-> NoFile, content_hash |-> NoHash,
      chunks |-> <<>>, i |-> 0, stored_ids |-> <<>>, result |-> NoResult ]

(* The file behind the path handed to add_document. *)
Files ==
    { [kind |-> "missing", content |-> <<>>],
      [kind |-> "unreadable", content |-> <<>>] }
    \cup { [kind |-> "text", content |-> c] : c \in Contents }

Init ==
    /\ \E s \in Setups : config = <<s[1], s[2]>> /\ openai_client = s[3]
    /\ store = <<>>
    /\ processed_hashes = {}
    /\ calls = [t \in Tasks |-> IdleCall]
    /\ succeeded = {}
    /\ partial = {}
    /\ stale = {}
    /\ ret = NoRet
    /\ BotIdle


(***************************************************************************)
(* RAGSystem.add_document                                                  *)
(***************************************************************************)
(* The call has returned `res`: its locals are gone.  The file it was      *)
(* given is kept as history when it ended before its first suspension.     *)
Returned(call, res) ==
    [ IdleCall EXCEPT !.pc = "returned",
                      !.file = IF call.pc = "embedding" THEN NoFile ELSE call.file,
                      !.result = res ]

(* Variant: the handler lets the exception out of the call. *)
except_handler_reraise(call, msg) == [ IdleCall EXCEPT !.pc = "raised" ]

(* except Exception as e: return {'success': False, 'error': str(e), ...}  *)
except_handler(call, msg) == Returned(call, Failure(msg))

(* Variant: `if not content`, whitespace-only text counts as text. *)
has_text_unstripped(content) == content # <<>>

(* if not content.strip() *)
has_text(content) == Strip(content) # <<>>

(* Variant: the text, not its digest, is looked up in the set of digests. *)
is_duplicate_by_text(content_hash, hashes) == FALSE

(* if content_hash in self.processed_hashes *)
is_duplicate(content_hash, hashes) == content_hash \in hashes

(* The error chunk_text raises for the configured parameters. *)
ChunkParamError(chunk_size, overlap) ==
    IF chunk_size <= 0 THEN "chunk_size must be positive"
    ELSE IF overlap >= chunk_size THEN "overlap must be smaller than chunk_size"
    ELSE "overlap must be non-negative"

(* The call from its entry up to its first suspension: either it has       *)
(* returned, or it awaits the embedding of chunk 0 inside store_document.  *)
add_document_begin(file, hashes, cfg, client) ==
    LET content == file.content
        content_hash == get_document_hash(content)
        chunks == chunk_text(content, cfg[1], cfg[2])
        call == [ IdleCall EXCEPT !.file = file ]
        hashed == [ call EXCEPT !.content_hash = content_hash ]
    IN  IF file.kind = "missing"
        THEN Returned(call, Failure("File not found"))
        ELSE IF file.kind = "unreadable"
        THEN except_handler(call, "Error reading text file")
        ELSE IF ~has_text(content)
        THEN Returned(call, Failure("Document contains no extractable text"))
        ELSE IF is_duplicate(content_hash, hashes)
        THEN Returned(call, DuplicateResult)
        ELSE IF ~ChunkParamsValid(cfg[1], cfg[2])
        THEN except_handler(call, ChunkParamError(cfg[1], cfg[2]))
        ELSE IF chunks = <<>>
        THEN Returned(call, SuccessResult(content_hash, 0, 0))
        ELSE IF ~client
        THEN except_handler(call, "No embedding function available")
        ELSE [ hashed EXCEPT !.pc = "embedding", !.chunks = chunks ]

(* Variant: the hash is recorded in a `finally`, also when a store failed. *)
HashesAfter_Finally(before, call, hashes) ==
    IF before.pc = "embedding" /\ call.pc = "returned"
    THEN hashes \cup {before.content_hash}
    ELSE hashes

(* Variant: the hash is recorded as soon as the duplicate check passed. *)
HashesAfter_AtCheck(before, call, hashes) ==
    IF call.pc = "embedding" THEN hashes \cup {call.content_hash}
    ELSE IF call.pc = "returned" /\ call.result.success
    THEN hashes \cup {call.result.content_hash}
    ELSE hashes

(* self.processed_hashes.add(content_hash) is reached only on the path     *)
(* that returns the success result.  `before` is the call before the step, *)
(* `call` the call after it.                                               *)
HashesAfter(before, call, hashes) ==
    IF call.pc = "returned" /\ call.result.success
    THEN hashes \cup {call.result.content_hash}
    ELSE hashes

(* chunk_metadata of the chunk the call is storing. *)
chunk_metadata(call) ==
    [ id |-> get_document_metadata(call.file.content).id,
      content_hash |-> get_document_metadata(call.file.content).content_hash,
      chunk_index |-> call.i,
      total_chunks |-> Len(call.chunks) ]

Outcomes == {"ok", "embed_error", "index_error"}

(* Variant: a failed chunk store rolls back the records of the document. *)
StoreAfter_Rollback(call, coll, outcome) ==
    IF outcome = "ok"
    THEN collection_add(coll,
             store_record(coll, call.chunks[call.i + 1], chunk_metadata(call)))
    ELSE collection_delete(coll, chunk_metadata(call).id)

(* The collection after the store_document the call awaits has ended with  *)
(* `outcome`: the chunk is added, or an exception left it as it was.       *)
StoreAfter(call, coll, outcome) ==
    IF outcome = "ok"
    THEN collection_add(coll,
             store_record(coll, call.chunks[call.i + 1], chunk_metadata(call)))
    ELSE coll

(* The call after the await of store_document ended with `outcome`: the    *)
(* loop goes on to the next chunk, or the call returns.                    *)
add_document_resume(call, coll, outcome) ==
    LET doc_id == store_doc_id(coll, chunk_metadata(call))
        stored == [ call EXCEPT !.stored_ids = Append(@, doc_id),
                                !.i = @ + 1 ]
    IN  IF outcome = "embed_error"
        THEN except_handler(call, "Error generating OpenAI embedding")
        ELSE IF outcome = "index_error"
        THEN except_handler(call, "index error")
        ELSE IF stored.i < Len(stored.chunks)
        THEN stored
        ELSE Returned(stored,
                 SuccessResult(stored.content_hash, Len(stored.stored_ids),
                               Len(stored.chunks)))

(* History bookkeeping for a call that has just ended: `before` is the     *)
(* call at its last suspension, `call` the call after the step.  A hash is *)
(* left partial by a call that ended without success after a store call of *)
(* it had returned, while no call of this orchestrator has committed it.   *)
PartialAfter(before, call, part, succ) ==
    IF call.pc = "returned" /\ call.result.success
    THEN part \ {call.result.content_hash}
    ELSE IF /\ call.pc \in {"returned", "cancelled", "raised"}
            /\ before.stored_ids # <<>>
            /\ before.content_hash \notin succ
    THEN part \cup {before.content_hash}
    ELSE part

SucceededAfter(call, succ) ==
    IF call.pc = "returned" /\ call.result.success
    THEN succ \cup {call.result.content_hash}
    ELSE succ

InFlight(t) == calls[t].pc = "embedding"

(* A task calls add_document(file_path); `file` is what the path holds. *)
AddDocument(t, file) ==
    /\ ~InFlight(t)
    /\ LET call == add_document_begin(file, processed_hashes,
                                      config, openai_client)
       IN  /\ calls' = [calls EXCEPT ![t] = call]
           /\ processed_hashes' = HashesAfter(calls[t], call, processed_hashes)
           /\ succeeded' = SucceededAfter(call, succeeded)
           /\ partial' = PartialAfter(IdleCall, call, partial, succeeded)
           /\ stale' = stale \ (succeeded' \ succeeded)
    /\ UNCHANGED <<botVars, config, openai_client, store, ret>>

(* The embedding awaited by store_document completes or fails; on          *)
(* completion the chunk is added to the collection and the loop continues. *)
StoreChunk(t, outcome) ==
    /\ InFlight(t)
    /\ LET call == add_document_resume(calls[t], store, outcome)
       IN  /\ calls' = [calls EXCEPT ![t] = call]
           /\ store' = StoreAfter(calls[t], store, outcome)
           /\ processed_hashes' = HashesAfter(calls[t], call, processed_hashes)
           /\ succeeded' = SucceededAfter(call, succeeded)
           /\ partial' = PartialAfter(calls[t], call, partial, succeeded)
           /\ stale' = stale \ (succeeded' \ succeeded)
    /\ UNCHANGED <<botVars, config, openai_client, ret>>

(* The task running the call is cancelled at its await: CancelledError is  *)
(* not an Exception, the call ends without a result.                       *)
Cancel(t) ==
    /\ InFlight(t)
    /\ LET call == [ IdleCall EXCEPT !.pc = "cancelled" ]
       IN  /\ calls' = [calls EXCEPT ![t] = call]
           /\ partial' = PartialAfter(calls[t], call, partial, succeeded)
    /\ UNCHANGED <<botVars, config, openai_client, store, processed_hashes,
                   succeeded, stale, ret>>

(***************************************************************************)
(* VectorStore.delete_document, RAGSystem.cleanup_duplicates, construction *)
(***************************************************************************)
(* delete_document(doc_id): the record is removed and True returned        *)
(* (ok), or the index raises and False is returned.                        *)
DeleteDocument(doc_id, ok) ==
    /\ store' = IF ok THEN collection_delete(store, doc_id) ELSE store
    /\ UNCHANGED <<botVars, config, openai_client, processed_hashes, calls,
                   succeeded, partial, stale, ret>>

(* Variant: every record of a hash that has more than one is a duplicate. *)
DuplicatePositions_WholeGroup(docs) ==
    { k \in 1..Len(docs) :
        /\ docs[k].content_hash # NoHash
        /\ \E j \in (1..Len(docs)) \ {k} :
              docs[j].content_hash = docs[k].content_hash }

(* Positions of the listed records that are not the first of their hash    *)
(* group (docs[1:] of every group). *)
DuplicatePositions(docs) ==
    { k \in 1..Len(docs) :
        /\ docs[k].content_hash # NoHash
        /\ \E j \in 1..(k - 1) : docs[j].content_hash = docs[k].content_hash }

(* The ids cleanup_duplicates hands to delete_document. *)
CleanupIds(docs) ==
    { docs[k].meta_id : k \in { p \in DuplicatePositions(docs) :
                                  docs[p].meta_id # NoId } }

(* removed_count: one per delete_document call, whatever it returned. *)
removed_count(docs) ==
    Cardinality({ p \in DuplicatePositions(docs) : docs[p].meta_id # NoId })

(* len(hash_groups) *)
unique_documents(docs) ==
    Cardinality({ docs[k].content_hash : k \in 1..Len(docs) } \ {NoHash})

(* cleanup_duplicates(); deletes of the ids in `failing` raise inside      *)
(* delete_document and are swallowed there.  It returns removed_count and  *)
(* unique_documents of the listed records.                                 *)
CleanupDuplicates(failing) ==
    LET all_docs == list_documents(store, CleanupLimit)
    IN  /\ failing \subseteq CleanupIds(all_docs)
        /\ store' = SelectSeq2(store,
                       StoreIds(store) \ (CleanupIds(all_docs) \ failing))
        /\ UNCHANGED <<botVars, config, openai_client, processed_hashes, calls,
                       succeeded, partial, stale, ret>>

(* _load_existing_hashes over the documents list_documents returned. *)
load_existing_hashes(docs) ==
    { docs[k].content_hash : k \in 1..Len(docs) } \ {NoHash}

(* A new RAGSystem is constructed over the persisted collection (process   *)
(* restart); list_documents returns [] when the index read fails.          *)
Construct(ok) ==
    /\ processed_hashes' =
          load_existing_hashes(IF ok THEN list_documents(store, LoadLimit)
                               ELSE <<>>)
    /\ calls' = [t \in Tasks |-> IdleCall]
    /\ succeeded' = {}
    /\ partial' = {}
    /\ stale' = stale \cup partial
    /\ UNCHANGED <<botVars, config, openai_client, store, ret>>

(***************************************************************************)
(* Specifications                                                          *)
(***************************************************************************)
KnownIds == StoreIds(store) \cup {DocId(0)}

Next ==
    \/ \E t \in Tasks, f \in Files : AddDocument(t, f)
    \/ \E t \in Tasks, o \in Outcomes : StoreChunk(t, o)
    \/ \E t \in Tasks : Cancel(t)
    \/ \E d \in KnownIds, ok \in BOOLEAN : DeleteDocument(d, ok)
    \/ \E failing \in SUBSET CleanupIds(store) : CleanupDuplicates(failing)
    \/ \E ok \in BOOLEAN : Construct(ok)

(* Tasks interleave at the awaits of add_document. *)
Spec == Init /\ [][Next]_vars

(* add_document with one call in flight at a time. *)
AddDocumentSerial(t, file) ==
    /\ \A u \in Tasks : ~InFlight(u)
    /\ AddDocument(t, file)

NextSerial ==
    \/ \E t \in Tasks, f \in Files : AddDocumentSerial(t, f)
    \/ \E t \in Tasks, o \in Outcomes : StoreChunk(t, o)
    \/ \E t \in Tasks : Cancel(t)
    \/ \E d \in KnownIds, ok \in BOOLEAN : DeleteDocument(d, ok)
    \/ \E failing \in SUBSET CleanupIds(store) : CleanupDuplicates(failing)
    \/ \E ok \in BOOLEAN : Construct(ok)

SpecSerial == Init /\ [][NextSerial]_vars

(***************************************************************************)
(* Construction over a collection persisted by earlier runs                *)
(***************************************************************************)
(* chunk_size and chunk_overlap of the run that persisted the collection. *)
PersistedChunking == <<2, 0>>

FillerChars == <<"a", ".", "!", "?">>

(* The text of the k-th document ingested by the earlier runs: k written   *)
(* in base Len(FillerChars), so different k give different texts, none of  *)
(* them in Contents.                                                       *)
RECURSIVE FillerText(_)
FillerText(k) ==
    IF k < Len(FillerChars) THEN << FillerChars[k + 1] >>
    ELSE FillerText(k \div Len(FillerChars))
         \o << FillerChars[(k % Len(FillerChars)) + 1] >>

(* The record a successful add_document of `content` left in the           *)
(* collection: that of its first chunk, the later chunks having the same   *)
(* record id.                                                              *)
IngestedRecord(content) ==
    LET chunks == chunk_text(content, PersistedChunking[1], PersistedChunking[2])
    IN  store_record(<<>>, chunks[1],
            [ id |-> get_document_metadata(content).id,
              content_hash |-> get_document_metadata(content).content_hash,
              chunk_index |-> 0,
              total_chunks |-> Len(chunks) ])

(* The collection after the documents 1..n have been ingested. *)
Filler(n) == [ k \in 1..n |-> IngestedRecord(FillerText(k)) ]

(* The collections an orchestrator is constructed over: empty, one         *)
(* document, and a document ingested as the LoadLimit-th and as the        *)
(* (LoadLimit+1)-th.                                                       *)
PersistedStores ==
    { <<>>,
      << IngestedRecord(<<"a", "a">>) >>,
      Filler(LoadLimit - 1) \o << IngestedRecord(<<"a", "a">>) >>,
      Filler(LoadLimit) \o << IngestedRecord(<<"a", "a">>) >> }

(* The process starts over a persisted collection and constructs the       *)
(* orchestrator; the index read of _load_existing_hashes works or fails.   *)
InitRestart ==
    /\ \E s \in Setups : config = <<s[1], s[2]>> /\ openai_client = s[3]
    /\ store \in PersistedStores
    /\ \E ok \in BOOLEAN :
          processed_hashes =
             load_existing_hashes(IF ok THEN list_documents(store, LoadLimit)
                                  ELSE <<>>)
    /\ calls = [t \in Tasks |-> IdleCall]
    /\ succeeded = {}
    /\ partial = {}
    /\ stale = {}
    /\ ret = NoRet
    /\ BotIdle

NextRestart ==
    \/ \E t \in Tasks, f \in Files : AddDocumentSerial(t, f)
    \/ \E t \in Tasks, o \in Outcomes : StoreChunk(t, o)
    \/ \E ok \in BOOLEAN : Construct(ok)

SpecRestart == InitRestart /\ [][NextRestart]_vars

(***************************************************************************)
(* VectorStore read and write operations, RAGSystem.retrieve_context       *)
(*                                                                         *)
(* Distances are in tenths, similarity scores and thresholds in            *)
(* twentieths: 1.0 - distance / 2.0 is (SimScale - distance) / SimScale.   *)
(***************************************************************************)
SimScale == 20

(* limit=10 of the search retrieve_context makes. *)
RetrieveLimit == 10

(* max_context_length and similarity_threshold (0.7) of the orchestrator. *)
QueryConfig == [ max_context_length |-> 3, similarity_threshold |-> 14 ]

(* Texts handed to store_document. *)
StoreTexts ==
    { <<>>, <<" ">>, <<"a">>, <<"a", "a", "a", "a">>,
      <<"a", "a", "a", "a", "a", "a", "a", "a">> }

(* Queries handed to search_similar and retrieve_context. *)
Queries == { <<>>, <<" ", "\n">>, <<"a">> }

(* Distances the index reports (0.0, 0.6, 2.5) and thresholds and limits   *)
(* search_similar is called with (0.0, 0.1, 0.7, 0.9, 1.0; 1, 2, 5).       *)
Distances == {0, 6, 25}

Thresholds == {0, 2, 14, 18, 20}

Limits == {1, 2, 5}

(* limit arguments of list_documents. *)
ListLimits == {1, 100}

(* max_tokens arguments of retrieve_context; 0 stands for None as well,    *)
(* `max_tokens or ...` treating the two alike.                             *)
MaxTokenArgs == {0, 1, 2}

(* Token counts an encoding gives a stored text. *)
TokenCounts == {1, 3}

(* embed_func argument: absent, or a coroutine function. *)
EmbedFuncs == {"none", "given"}

(* What a store operation hands its caller: a value, or an exception. *)
Return(value) == [ raised |-> FALSE, error |-> "", value |-> value ]

Raise(msg) == [ raised |-> TRUE, error |-> msg, value |-> <<>> ]

(* The embedding step of store_document and search_similar: the error it   *)
(* raises, "" when it yields an embedding.                                 *)
EmbeddingError(embed_func, client, outcome) ==
    IF embed_func = "given"
    THEN IF outcome = "embed_error" THEN "embed_func error" ELSE ""
    ELSE IF client
    THEN IF outcome = "embed_error" THEN "Error generating OpenAI embedding"
         ELSE ""
    ELSE "No embedding function available"

(* Variant: the record is added before the embedding is computed. *)
store_document_AddFirst(coll, client, text, metadata, embed_func, outcome) ==
    LET rec == store_record(coll, text, metadata)
        err == EmbeddingError(embed_func, client, outcome)
    IN  IF Strip(text) = <<>>
        THEN [ coll |-> coll, res |-> Raise("Cannot store empty document") ]
        ELSE IF err # ""
        THEN [ coll |-> collection_add(coll, rec), res |-> Raise(err) ]
        ELSE IF outcome = "index_error"
        THEN [ coll |-> coll, res |-> Raise("index error") ]
        ELSE [ coll |-> collection_add(coll, rec), res |-> Return(rec.id) ]

(* store_document(text, metadata, embed_func): the collection after the    *)
(* call and what the call handed its caller.                               *)
store_document(coll, client, text, metadata, embed_func, outcome) ==
    LET rec == store_record(coll, text, metadata)
        err == EmbeddingError(embed_func, client, outcome)
    IN  IF Strip(text) = <<>>
        THEN [ coll |-> coll, res |-> Raise("Cannot store empty document") ]
        ELSE IF err # ""
        THEN [ coll |-> coll, res |-> Raise(err) ]
        ELSE IF outcome = "index_error"
        THEN [ coll |-> coll, res |-> Raise("index error") ]
        ELSE [ coll |-> collection_add(coll, rec), res |-> Return(rec.id) ]

(* Metadata a caller of store_document passes for a text. *)
DirectMetadata(text) ==
    [ id |-> get_document_metadata(text).id,
      content_hash |-> get_document_metadata(text).content_hash,
      chunk_index |-> 0,
      total_chunks |-> 1 ]

(* Variant: the index is asked for every record. *)
IndexQueries_Unlimited(coll, limit) ==
    { c \in [ 1..Len(coll) -> 1..Len(coll) ] :
        \A i, j \in DOMAIN c : i # j => c[i] # c[j] }

(* collection.query(n_results=limit): the positions of Min(limit, count)   *)
(* different records.  Which records and in what order is the index's.     *)
IndexQueries(coll, limit) ==
    { c \in [ 1..Min(limit, Len(coll)) -> 1..Len(coll) ] :
        \A i, j \in DOMAIN c : i # j => c[i] # c[j] }

(* Variant: similarity = 1.0 + distance / 2.0 *)
similarity_SignError(distance) == SimScale + distance

(* similarity = 1.0 - (distance / 2.0) *)
similarity(distance) == SimScale - distance

(* Variant: no threshold test. *)
meets_threshold_Always(score, threshold) == TRUE

(* if similarity >= threshold *)
meets_threshold(score, threshold) == score >= threshold

(* The loop of search_similar over the candidates i..Len(cands) of the     *)
(* index; a candidate is <<text, distance>>.                               *)
RECURSIVE SearchContexts(_, _, _)
SearchContexts(cands, threshold, i) ==
    IF i > Len(cands) THEN <<>>
    ELSE (IF meets_threshold(similarity(cands[i].distance), threshold)
          THEN << [ content |-> cands[i].content,
                    similarity_score |-> similarity(cands[i].distance),
                    rank |-> i ] >>
          ELSE <<>>)
         \o SearchContexts(cands, threshold, i + 1)

(* Variant: `if not query`. *)
query_is_blank_Unstripped(query) == query = <<>>

(* if not query.strip() *)
query_is_blank(query) == Strip(query) = <<>>

(* search_similar(query, embed_func, limit, threshold), the index          *)
(* answering the query with the candidates `cands`.                        *)
search_similar(client, query, embed_func, threshold, cands, outcome) ==
    LET err == EmbeddingError(embed_func, client, outcome)
    IN  IF query_is_blank(query) THEN Return(<<>>)
        ELSE IF err # "" THEN Raise(err)
        ELSE IF outcome = "index_error" THEN Raise("index error")
        ELSE Return(SearchContexts(cands, threshold, 1))

(* The candidates the index hands back for the positions c under the       *)
(* distances dist.                                                         *)
Candidates(coll, c, dist) ==
    [ i \in DOMAIN c |-> [ content |-> coll[c[i]].text,
                           distance |-> dist[c[i]] ] ]

(* The call gets as far as the index query, and the query answers. *)
IndexAnswered(client, query, embed_func, outcome) ==
    /\ ~query_is_blank(query)
    /\ EmbeddingError(embed_func, client, outcome) = ""
    /\ outcome # "index_error"

(* What the index can answer a query for `limit` results: the distance of  *)
(* every record from the query, and the positions it hands back.  Nothing, *)
(* when it is not asked or raises.                                         *)
IndexAnswers(coll, limit, answered) ==
    IF answered
    THEN { [ c |-> c, dist |-> d ] :
             c \in IndexQueries(coll, limit),
             d \in [ 1..Len(coll) -> Distances ] }
    ELSE { [ c |-> <<>>, dist |-> <<>> ] }

(* count_tokens: the length of the encoding, or len(text) // 4 when the    *)
(* encoding cannot be had.                                                 *)
count_tokens(text, tokenizer) ==
    IF tokenizer.ok THEN tokenizer.enc[text] ELSE Len(text) \div 4

(* An encoding gives a text at least one token and at most one a           *)
(* character.                                                              *)
Tokenizers ==
    LET texts == { x \in StoreTexts : Strip(x) # <<>> }
    IN  { [ ok |-> FALSE, enc |-> [ x \in texts |-> Len(x) \div 4 ] ] }
        \cup { [ ok |-> TRUE, enc |-> e ] :
                 e \in { f \in [ texts -> TokenCounts ] :
                           \A x \in texts : f[x] <= Len(x) } }

(* list.sort(key=similarity_score, reverse=True): stable, equal scores     *)
(* keep their order.                                                       *)
RECURSIVE InsertDesc(_, _)
InsertDesc(sorted, doc) ==
    IF sorted = <<>> THEN << doc >>
    ELSE IF Head(sorted).similarity_score >= doc.similarity_score
         THEN << Head(sorted) >> \o InsertDesc(Tail(sorted), doc)
         ELSE << doc >> \o sorted

RECURSIVE SortDesc(_)
SortDesc(docs) ==
    IF docs = <<>> THEN <<>>
    ELSE InsertDesc(SortDesc(SubSeq(docs, 1, Len(docs) - 1)), docs[Len(docs)])

(* if current_tokens + doc_tokens > max_tokens and context_parts: break *)
over_budget(current_tokens, doc_tokens, max_tokens, context_parts) ==
    current_tokens + doc_tokens > max_tokens /\ context_parts # <<>>

(* The accumulation loop of retrieve_context: context_parts at its end. *)
RECURSIVE Accumulate(_, _, _, _, _)
Accumulate(docs, tokenizer, max_tokens, context_parts, current_tokens) ==
    IF docs = <<>> THEN context_parts
    ELSE LET content == Head(docs).content
             doc_tokens == count_tokens(content, tokenizer)
         IN  IF over_budget(current_tokens, doc_tokens, max_tokens, context_parts)
             THEN context_parts
             ELSE Accumulate(Tail(docs), tokenizer, max_tokens,
                             Append(context_parts, content),
                             current_tokens + doc_tokens)

ContextLabel == "Relevant context from legal documents:\n\n"

ContextSeparator == "\n\n---\n\n"

(* separator.join(parts); the label and the separator are one element of   *)
(* the string each.                                                        *)
RECURSIVE Join(_)
Join(parts) ==
    IF parts = <<>> THEN <<>>
    ELSE IF Len(parts) = 1 THEN parts[1]
    ELSE parts[1] \o << ContextSeparator >> \o Join(Tail(parts))

FormatContext(context_parts) == << ContextLabel >> \o Join(context_parts)

(* Variant: the handler lets the exception of the search out. *)
retrieve_except_handler_Reraise(found) == Raise(found.error)

(* except Exception as e: ... return "" *)
retrieve_except_handler(found) == Return(<<>>)

(* retrieve_context(query, max_tokens): what it hands its caller, and      *)
(* whether it called the store.                                            *)
retrieve_context(client, query, max_tokens_arg, tokenizer, cands, outcome) ==
    LET max_tokens == IF max_tokens_arg = 0
                      THEN QueryConfig.max_context_length
                      ELSE max_tokens_arg
        found == search_similar(client, query, "none",
                                QueryConfig.similarity_threshold, cands, outcome)
        context_parts == Accumulate(SortDesc(found.value), tokenizer,
                                    max_tokens, <<>>, 0)
    IN  IF query_is_blank(query)
        THEN [ searched |-> FALSE, res |-> Return(<<>>) ]
        ELSE IF found.raised
        THEN [ searched |-> TRUE, res |-> retrieve_except_handler(found) ]
        ELSE IF found.value = <<>>
        THEN [ searched |-> TRUE, res |-> Return(<<>>) ]
        ELSE IF context_parts # <<>>
        THEN [ searched |-> TRUE, res |-> Return(FormatContext(context_parts)) ]
        ELSE [ searched |-> TRUE, res |-> Return(<<>>) ]

(* try: return <value> / except Exception: return <fallback>, of           *)
(* list_documents and get_collection_info.                                 *)
read_guard(ok, value, fallback) == IF ok THEN Return(value) ELSE Return(fallback)

(* The caller makes its calls one after another: no call is made while    *)
(* the result of the last one has not been taken.                          *)
NoCallPending == ret = NoRet

(* The caller takes the result of its call. *)
TakeResult ==
    /\ ret # NoRet
    /\ ret' = NoRet
    /\ UNCHANGED <<botVars, config, openai_client, store, processed_hashes, calls,
                   succeeded, partial, stale>>

(* A caller stores a text with store_document under the metadata it      *)
(* passes.                                                                 *)
StoreDocument(text, metadata, embed_func, outcome) ==
    LET done == store_document(store, openai_client, text,
                               metadata, embed_func, outcome)
    IN  /\ NoCallPending
        /\ store' = done.coll
        /\ ret' = [ op |-> "store_document", text |-> text,
                    meta_id |-> metadata.id,
                    embed_func |-> embed_func, outcome |-> outcome,
                    raised |-> done.res.raised, error |-> done.res.error,
                    value |-> done.res.value ]
        /\ UNCHANGED <<botVars, config, openai_client, processed_hashes, calls,
                       succeeded, partial, stale>>

(* A caller searches the store; `answer` is what the index answers. *)
SearchSimilar(query, embed_func, limit, threshold, answer, outcome) ==
    LET cands == Candidates(store, answer.c, answer.dist)
        found == search_similar(openai_client, query, embed_func,
                                threshold, cands, outcome)
    IN  /\ NoCallPending
        /\ answer \in IndexAnswers(store, limit,
               IndexAnswered(openai_client, query, embed_func, outcome))
        /\ ret' = [ op |-> "search_similar", query |-> query,
                    embed_func |-> embed_func, outcome |-> outcome,
                    limit |-> limit, threshold |-> threshold,
                    dist |-> answer.dist, cands |-> cands,
                    raised |-> found.raised, error |-> found.error,
                    value |-> found.value ]
        /\ UNCHANGED <<botVars, config, openai_client, store, processed_hashes, calls,
                       succeeded, partial, stale>>

(* A caller asks the orchestrator for the context of a query. *)
RetrieveContext(query, max_tokens_arg, tokenizer, answer, outcome) ==
    LET cands == Candidates(store, answer.c, answer.dist)
        done == retrieve_context(openai_client, query, max_tokens_arg,
                                 tokenizer, cands, outcome)
    IN  /\ NoCallPending
        /\ answer \in IndexAnswers(store, RetrieveLimit,
               IndexAnswered(openai_client, query, "none", outcome))
        /\ ret' = [ op |-> "retrieve_context", query |-> query,
                    outcome |-> outcome,
                    max_tokens |-> IF max_tokens_arg = 0
                                   THEN QueryConfig.max_context_length
                                   ELSE max_tokens_arg,
                    tokenizer |-> tokenizer, cands |-> cands,
                    searched |-> done.searched,
                    raised |-> done.res.raised, error |-> done.res.error,
                    value |-> done.res.value ]
        /\ UNCHANGED <<botVars, config, openai_client, store, processed_hashes, calls,
                       succeeded, partial, stale>>

(* list_documents(limit); the index read works or raises. *)
ListDocuments(limit, ok) ==
    LET done == read_guard(ok, list_documents(store, limit), <<>>)
    IN  /\ NoCallPending
        /\ ret' = [ op |-> "list_documents", limit |-> limit, ok |-> ok,
                    raised |-> done.raised, error |-> done.error,
                    value |-> done.value ]
        /\ UNCHANGED <<botVars, config, openai_client, store, processed_hashes, calls,
                       succeeded, partial, stale>>

(* get_collection_info(); collection.count() works or raises. *)
GetCollectionInfo(ok) ==
    LET done == read_guard(ok, [ document_count |-> Len(store), error |-> "" ],
                           [ document_count |-> -1, error |-> "index error" ])
    IN  /\ NoCallPending
        /\ ret' = [ op |-> "get_collection_info", ok |-> ok,
                    raised |-> done.raised, error |-> done.error,
                    value |-> done.value ]
        /\ UNCHANGED <<botVars, config, openai_client, store, processed_hashes, calls,
                       succeeded, partial, stale>>

(* A process with an empty collection, with or without an embedding       *)
(* client.                                                                 *)
InitQuery ==
    /\ config = PersistedChunking
    /\ openai_client \in BOOLEAN
    /\ store = <<>>
    /\ processed_hashes = {}
    /\ calls = [t \in Tasks |-> IdleCall]
    /\ succeeded = {}
    /\ partial = {}
    /\ stale = {}
    /\ ret = NoRet
    /\ BotIdle

NextQuery ==
    \/ /\ NoCallPending
       /\ \E x \in StoreTexts, e \in EmbedFuncs, o \in Outcomes :
             StoreDocument(x, DirectMetadata(x), e, o)
    \/ /\ NoCallPending
       /\ \E q \in Queries, e \in EmbedFuncs, l \in Limits,
             th \in Thresholds, o \in Outcomes :
             \E a \in IndexAnswers(store, l,
                       IndexAnswered(openai_client, q, e, o)) :
                SearchSimilar(q, e, l, th, a, o)
    \/ /\ NoCallPending
       /\ \E q \in Queries, m \in MaxTokenArgs, tk \in Tokenizers,
             o \in Outcomes :
             \E a \in IndexAnswers(store, RetrieveLimit,
                       IndexAnswered(openai_client, q, "none", o)) :
                RetrieveContext(q, m, tk, a, o)
    \/ /\ NoCallPending
       /\ \E l \in ListLimits, ok \in BOOLEAN : ListDocuments(l, ok)
    \/ /\ NoCallPending
       /\ \E ok \in BOOLEAN : GetCollectionInfo(ok)
    \/ TakeResult

(* The store operations and retrieve_context, called one after another. *)
SpecQuery == InitQuery /\ [][NextQuery]_vars

(***************************************************************************)
(* Store maintenance: store_document with caller metadata,                 *)
(* delete_document, delete_by_metadata and cleanup_duplicates, called one  *)
(* after another on a collection that holds chunk records                  *)
(***************************************************************************)
(* Records a caller may add while the collection holds fewer than this. *)
MaxStored == 2

(* The documents whose chunks are stored: cut with chunk_size 1 and no     *)
(* overlap they have three and two chunks.                                 *)
MaintDocs == { <<"a", "a", "a">>, <<"a", "a">> }

(* The chunks of the documents: <<document, chunk_index>>. *)
MaintChunks ==
    { <<d, i>> : d \in MaintDocs, i \in 0..2 } \ { <<<<"a", "a">>, 2>> }

(* Content hashes a metadata filter names; the last is of no document. *)
FilterHashes ==
    { get_document_hash(d) : d \in MaintDocs } \cup { get_document_hash(<<"a">>) }

(* An id a caller gives the chunk of a document. *)
ChunkId(doc, index) == <<"chunk", get_document_hash(doc) * HashBase + index>>

(* Metadata a caller passes with a chunk: with or without an id of its     *)
(* own, with or without the content hash of the document.                  *)
CallerMetadata(doc, index, with_id, with_hash) ==
    [ id |-> IF with_id THEN ChunkId(doc, index) ELSE NoId,
      content_hash |-> IF with_hash THEN get_document_hash(doc) ELSE NoHash,
      chunk_index |-> index,
      total_chunks |-> Len(doc) ]

(* The text of a chunk of a document. *)
ChunkOf(doc, index) == chunk_text(doc, 1, 0)[index + 1]

(* delete_document(doc_id): True once collection.delete has returned,      *)
(* which it does for an id that is absent as well; False when it raised.   *)
delete_document(coll, doc_id, ok) ==
    IF ok
    THEN [ coll |-> collection_delete(coll, doc_id), res |-> Return(TRUE) ]
    ELSE [ coll |-> coll, res |-> Return(FALSE) ]

(* delete_by_metadata({'content_hash': h}): the matching ids are read and  *)
(* deleted and their number returned; 0 when none matches and when the     *)
(* index raises.                                                           *)
delete_by_metadata(coll, filter_hash, ok) ==
    LET ids == { coll[k].id : k \in RecordsWithHash(coll, filter_hash) }
    IN  IF ~ok THEN [ coll |-> coll, res |-> Return(0) ]
        ELSE IF ids # {}
        THEN [ coll |-> SelectSeq2(coll, StoreIds(coll) \ ids),
               res |-> Return(Cardinality(ids)) ]
        ELSE [ coll |-> coll, res |-> Return(0) ]

(* Variant: removed_count counts only the deletes that returned True. *)
cleanup_duplicates_CountsDeleted(coll, list_ok, failing) ==
    LET all_docs == IF list_ok THEN list_documents(coll, CleanupLimit)
                    ELSE <<>>
    IN  [ coll |-> SelectSeq2(coll,
                      StoreIds(coll) \ (CleanupIds(all_docs) \ failing)),
          res |-> Return([ success |-> TRUE,
                           duplicates_removed |->
                               Cardinality(CleanupIds(all_docs) \ failing),
                           unique_documents |->
                               unique_documents(all_docs) ]) ]

(* cleanup_duplicates(): the collection after the call and the statistics  *)
(* it returns.  list_documents yields [] when the index read fails; the    *)
(* deletes of the ids in `failing` raise inside delete_document.           *)
cleanup_duplicates(coll, list_ok, failing) ==
    LET all_docs == IF list_ok THEN list_documents(coll, CleanupLimit)
                    ELSE <<>>
    IN  [ coll |-> SelectSeq2(coll,
                      StoreIds(coll) \ (CleanupIds(all_docs) \ failing)),
          res |-> Return([ success |-> TRUE,
                           duplicates_removed |-> removed_count(all_docs),
                           unique_documents |->
                               unique_documents(all_docs) ]) ]

(* A caller deletes a record by id. *)
DeleteDocumentCall(doc_id, ok) ==
    LET done == delete_document(store, doc_id, ok)
    IN  /\ NoCallPending
        /\ store' = done.coll
        /\ ret' = [ op |-> "delete_document", doc_id |-> doc_id, ok |-> ok,
                    raised |-> done.res.raised, error |-> done.res.error,
                    value |-> done.res.value ]
        /\ UNCHANGED <<botVars, config, openai_client, processed_hashes, calls,
                       succeeded, partial, stale>>

(* A caller deletes the records of a content hash. *)
DeleteByMetadata(filter_hash, ok) ==
    LET done == delete_by_metadata(store, filter_hash, ok)
    IN  /\ NoCallPending
        /\ store' = done.coll
        /\ ret' = [ op |-> "delete_by_metadata", filter_hash |-> filter_hash,
                    ok |-> ok,
                    raised |-> done.res.raised, error |-> done.res.error,
                    value |-> done.res.value ]
        /\ UNCHANGED <<botVars, config, openai_client, processed_hashes, calls,
                       succeeded, partial, stale>>

(* A caller runs cleanup_duplicates. *)
CleanupDuplicatesCall(list_ok, failing) ==
    LET done == cleanup_duplicates(store, list_ok, failing)
    IN  /\ NoCallPending
        /\ failing \subseteq CleanupIds(store)
        /\ store' = done.coll
        /\ ret' = [ op |-> "cleanup_duplicates", list_ok |-> list_ok,
                    failing |-> failing, listed |-> Len(store),
                    raised |-> done.res.raised, error |-> done.res.error,
                    value |-> done.res.value ]
        /\ UNCHANGED <<botVars, config, openai_client, processed_hashes, calls,
                       succeeded, partial, stale>>

(* The collection after the chunks in `puts` were stored in turn;          *)
(* puts[k] = <<document, chunk_index, with_id>>.                           *)
RECURSIVE StoredAll(_, _)
StoredAll(coll, puts) ==
    IF puts = <<>> THEN coll
    ELSE StoredAll(
             store_document(coll, TRUE,
                            ChunkOf(Head(puts)[1], Head(puts)[2]),
                            CallerMetadata(Head(puts)[1], Head(puts)[2],
                                           Head(puts)[3], TRUE),
                            "given", "ok").coll,
             Tail(puts))

(* The orders in which the three chunks of one document and the two of     *)
(* the other were stored.                                                  *)
StoredOrders ==
    LET A == <<"a", "a", "a">>
        B == <<"a", "a">>
    IN  { << <<A, 0>>, <<A, 1>>, <<A, 2>>, <<B, 0>>, <<B, 1>> >>,
          << <<A, 0>>, <<B, 0>>, <<A, 1>>, <<B, 1>>, <<A, 2>> >> }

(* The positions stored without an id in the metadata. *)
StoredIdless == { {}, {2}, {5}, {1, 2, 3, 4, 5} }

(* Collections the process starts with: empty, or the five chunk records   *)
(* of the two documents.                                                   *)
MaintStores ==
    { <<>> } \cup
    { StoredAll(<<>>, [k \in 1..Len(o) |-> <<o[k][1], o[k][2], k \notin idless>>]) :
        o \in StoredOrders, idless \in StoredIdless }

(* The orchestrator that runs cleanup_duplicates was constructed over the  *)
(* collection and has loaded its hashes.                                   *)
InitMaintain ==
    /\ config = PersistedChunking
    /\ openai_client = TRUE
    /\ store \in MaintStores
    /\ processed_hashes = load_existing_hashes(list_documents(store, LoadLimit))
    /\ calls = [t \in Tasks |-> IdleCall]
    /\ succeeded = {}
    /\ partial = {}
    /\ stale = {}
    /\ ret = NoRet
    /\ BotIdle

NextMaintain ==
    \/ /\ NoCallPending
       /\ Len(store) < MaxStored
       /\ \E c \in MaintChunks, with_id \in BOOLEAN, with_hash \in BOOLEAN,
             o \in Outcomes :
             StoreDocument(ChunkOf(c[1], c[2]),
                           CallerMetadata(c[1], c[2], with_id, with_hash),
                           "given", o)
    \/ /\ NoCallPending
       /\ \E d \in KnownIds, ok \in BOOLEAN : DeleteDocumentCall(d, ok)
    \/ /\ NoCallPending
       /\ \E h \in FilterHashes, ok \in BOOLEAN : DeleteByMetadata(h, ok)
    \/ /\ NoCallPending
       /\ \E list_ok \in BOOLEAN, failing \in SUBSET CleanupIds(store) :
             CleanupDuplicatesCall(list_ok, failing)
    \/ TakeResult

(* The maintenance operations of the store, called one after another. *)
SpecMaintain == InitMaintain /\ [][NextMaintain]_vars

(***************************************************************************)
(* DocumentProcessor.chunk_text, called on its own                         *)
(***************************************************************************)
(* Short texts, chunked with windows of one to three characters. *)
ShortTexts == UNION { [1..n -> {"a", " ", "."}] : n \in 0..4 }

(* <<chunk_size, overlap>> passed with the short texts: pairs that pass    *)
(* the parameter checks and pairs that fail one of them.                   *)
SmallParams ==
    { <<1, 0>>, <<2, 0>>, <<2, 1>>, <<3, 0>>, <<3, 2>>,
      <<0, 0>>, <<-1, 0>>, <<0, -1>>, <<2, -1>>, <<2, 2>>, <<2, 3>> }

(* What may stand between two runs of letters. *)
Separators ==
    { <<>>, <<" ">>, <<".", " ">>, <<".", "\n">>, <<"!", " ">>,
      <<"?", "\n">>, <<"\n", "\n">>, <<"?", " ">> }

LetterRun(n) == [i \in 1..n |-> "a"]

(* Texts of 14 characters and more whose first window of 10 characters     *)
(* has up to two separators in its second half.                            *)
BoundaryTexts ==
    { LET body == LetterRun(p) \o s1 \o LetterRun(q) \o s2
      IN  body \o LetterRun(Max(0, 14 - Len(body))) :
        p \in 5..9, q \in 0..2, s1 \in Separators, s2 \in Separators }

(* The inputs of chunk_text: <<text, chunk_size, overlap>>.  The last      *)
(* lines are the defaults (1000, 200) on a text of 2500 letters and an     *)
(* overlap that is not below a chunk_size of 1000.                         *)
ChunkInputs ==
    { <<x, p[1], p[2]>> : x \in ShortTexts, p \in SmallParams }
    \cup { <<x, 10, ov>> : x \in BoundaryTexts, ov \in {0, 3, 9} }
    \cup { <<LetterRun(2500), 1000, 200>> }
    \cup { <<LetterRun(2), 1000, ov>> : ov \in {1000, 1200} }

(* Variant: the next window starts at end - overlap, however small. *)
next_start_NoFloor(start, end, overlap) == end - overlap

(* Variant: the next window starts one character later. *)
next_start_Skips(start, end, overlap) == Max(start + 1, end - overlap + 1)

(* start = max(start + 1, end - overlap) *)
next_start(start, end, overlap) == Max(start + 1, end - overlap)

(* Variant: the window is appended as it was sliced. *)
window_chunk_Untrimmed(text, start, end) == Slice(text, start, end)

(* chunk = text[start:end].strip() *)
window_chunk(text, start, end) == Strip(Slice(text, start, end))

(* The iterations of the while loop from `start` on: the window start,     *)
(* the cut and the chunk of each.  The loop is followed for at most        *)
(* `left` iterations.                                                      *)
RECURSIVE ChunkWindows(_, _, _, _, _)
ChunkWindows(text, chunk_size, overlap, start, left) ==
    IF ~(start < Len(text)) \/ left = 0 THEN <<>>
    ELSE LET end == CutEnd(text, chunk_size, start)
         IN  << [ start |-> start, end |-> end,
                  chunk |-> window_chunk(text, start, end) ] >>
             \o ChunkWindows(text, chunk_size, overlap,
                             next_start(start, end, overlap), left - 1)

(* chunks.append(chunk) for the windows whose chunk is not empty. *)
RECURSIVE AppendedChunks(_)
AppendedChunks(windows) ==
    IF windows = <<>> THEN <<>>
    ELSE (IF Head(windows).chunk # <<>> THEN <<Head(windows).chunk>>
          ELSE <<>>)
         \o AppendedChunks(Tail(windows))

(* chunk_text(text, chunk_size, overlap): the iterations made and what     *)
(* the call hands its caller.  One iteration more than the text has        *)
(* characters is followed.                                                 *)
chunk_text_call(text, chunk_size, overlap) ==
    IF ~ChunkParamsValid(chunk_size, overlap)
    THEN [ windows |-> <<>>,
           res |-> Raise(ChunkParamError(chunk_size, overlap)) ]
    ELSE LET windows == ChunkWindows(text, chunk_size, overlap, 0,
                                     Len(text) + 1)
         IN  [ windows |-> windows, res |-> Return(AppendedChunks(windows)) ]

(* A caller chunks a text. *)
ChunkText(text, chunk_size, overlap) ==
    LET done == chunk_text_call(text, chunk_size, overlap)
    IN  /\ NoCallPending
        /\ ret' = [ op |-> "chunk_text", text |-> text,
                    chunk_size |-> chunk_size, overlap |-> overlap,
                    windows |-> done.windows,
                    raised |-> done.res.raised, error |-> done.res.error,
                    value |-> done.res.value ]
        /\ UNCHANGED <<botVars, config, openai_client, store, processed_hashes, calls,
                       succeeded, partial, stale>>

InitChunk ==
    /\ config = PersistedChunking
    /\ openai_client = TRUE
    /\ store = <<>>
    /\ processed_hashes = {}
    /\ calls = [t \in Tasks |-> IdleCall]
    /\ succeeded = {}
    /\ partial = {}
    /\ stale = {}
    /\ ret = NoRet
    /\ BotIdle

NextChunk ==
    \/ /\ NoCallPending
       /\ \E in \in ChunkInputs : ChunkText(in[1], in[2], in[3])
    \/ TakeResult

(* chunk_text applied to the inputs, one call after another. *)
SpecChunk == InitChunk /\ [][NextChunk]_vars

(***************************************************************************)
(* OpenRouterChatClient: on_message and _prepare_messages                  *)
(***************************************************************************)
(* Messages on_message takes up in one run of the bot. *)
MaxMessages == 3

(* The orchestrator and the store while only the bot's own state moves. *)
RagIdle ==
    /\ config = PersistedChunking
    /\ openai_client = TRUE
    /\ store = <<>>
    /\ processed_hashes = {}
    /\ calls = [t \in Tasks |-> IdleCall]
    /\ succeeded = {}
    /\ partial = {}
    /\ stale = {}
    /\ ret = NoRet

(* Message texts as _clean_content returns them (never empty). *)
UserTexts == {"q1", "q2"}

(* The text _query_openrouter returns. *)
ReplyText == "r"

(* What retrieve_context returns when it is run to its end. *)
RagContexts == {"", "ctx"}

(* Values of OPENROUTER_MAX_TURNS in the environment: unset, not a number, *)
(* or an integer.                                                          *)
EnvMaxTurns ==
    { [kind |-> "unset", value |-> 0], [kind |-> "text", value |-> 0] }
    \cup { [kind |-> "int", value |-> v] : v \in {-1, 0, 1, 2} }

(* _env_int(name, default) *)
env_int(raw, default) ==
    IF raw.kind = "int" /\ raw.value > 0 THEN raw.value ELSE default

(* The bots that are started: RAG_ENABLED with a RAG system constructed or *)
(* not, OPENROUTER_SYSTEM_PROMPT set to a text or to the empty string.     *)
RelayConfigs ==
    { [ rag_enabled |-> r, system_prompt |-> p, max_turns |-> env_int(m, 6) ] :
        r \in BOOLEAN, p \in {"sys", ""}, m \in EnvMaxTurns }

(* Variant: the deque holds one entry more. *)
history_maxlen_Odd(cfg) == cfg.max_turns * 2 + 1

(* deque(maxlen=self._max_turns * 2) *)
history_maxlen(cfg) == cfg.max_turns * 2

(* deque.extend(entries) on a deque of the given maxlen: entries are       *)
(* appended one by one, the oldest is dropped when the deque is full.      *)
RECURSIVE deque_extend(_, _, _)
deque_extend(conversation, entries, maxlen) ==
    IF entries = <<>> THEN conversation
    ELSE LET longer == Append(conversation, Head(entries))
         IN  deque_extend(IF Len(longer) > maxlen THEN Tail(longer)
                          ELSE longer,
                          Tail(entries), maxlen)

ChatMessage(role, content) == [ role |-> role, content |-> content ]

(* The query _prepare_messages hands to retrieve_context: the content of   *)
(* the last user entry of the conversation if there is one, else the       *)
(* message being answered.                                                 *)
rag_user_query(conversation, user_message) ==
    LET users == { k \in 1..Len(conversation) :
                     conversation[k].role = "user" }
    IN  IF users = {} THEN user_message
        ELSE conversation[MaxOf(users)].content

(* asyncio.run(coro): raises RuntimeError when called while an event loop  *)
(* is running in the thread, else runs the coroutine to its end.           *)
asyncio_run(loop_running, value) ==
    IF loop_running
    THEN Raise("asyncio.run() cannot be called from a running event loop")
    ELSE Return(value)

(* _prepare_messages(conversation, user_message); rag_would is what        *)
(* retrieve_context returns for the query if it is run.                    *)
prepare_messages(cfg, conversation, user_message, rag_would, loop_running) ==
    LET prompt == IF cfg.system_prompt # ""
                  THEN << ChatMessage("system", cfg.system_prompt) >>
                  ELSE <<>>
        got == asyncio_run(loop_running, rag_would)
        context == IF cfg.rag_enabled
                   THEN IF ~got.raised
                        THEN IF got.value # ""
                             THEN << ChatMessage("system", got.value) >>
                             ELSE <<>>
                        ELSE <<>>
                   ELSE <<>>
    IN  prompt \o context \o conversation
        \o << ChatMessage("user", user_message) >>

(* Variant: the lock is taken whoever holds it. *)
lock_free_Always(lock) == TRUE

(* asyncio.Lock.acquire returns at once iff the lock is not held and       *)
(* nobody waits for it.                                                    *)
lock_free(lock) == lock.holder = 0 /\ lock.waiters = <<>>

(* asyncio.Lock.release: the lock is free and its first waiter is woken. *)
lock_release(lock) == [ lock EXCEPT !.holder = 0 ]

(* The turn of a task that holds the channel's lock, has prepared its      *)
(* messages and awaits the completion API.  on_message runs inside the     *)
(* event loop.                                                             *)
PreparedTurn(cfg, conversation, channel, content, rag_would) ==
    [ pc |-> "querying", channel |-> channel, content |-> content,
      payload |-> prepare_messages(cfg, conversation, content, rag_would,
                                   TRUE),
      rag_called |-> cfg.rag_enabled,
      rag_query |-> IF cfg.rag_enabled
                    THEN rag_user_query(conversation, content) ELSE "",
      rag_would |-> IF cfg.rag_enabled THEN rag_would ELSE "" ]

(* on_message for a message the bot replies to: it takes the lock of the   *)
(* channel and prepares its messages, or waits for the lock.               *)
OnMessage(t, channel, content, rag_would) ==
    /\ turns[t].pc = "idle"
    /\ accepted < MaxMessages
    /\ accepted' = accepted + 1
    /\ IF lock_free(locks[channel])
       THEN /\ locks' = [locks EXCEPT ![channel].holder = t]
            /\ turns' = [turns EXCEPT ![t] =
                  PreparedTurn(relay_config, history[channel], channel,
                               content, rag_would)]
       ELSE /\ locks' = [locks EXCEPT ![channel].waiters = Append(@, t)]
            /\ turns' = [turns EXCEPT ![t] =
                  [ NoTurn EXCEPT !.pc = "waiting", !.channel = channel,
                                  !.content = content ]]
    /\ UNCHANGED <<ragVars, relay_config, history, http_call, modVars>>

(* The first waiter of a released lock takes it and prepares its messages. *)
LockAcquired(t, rag_would) ==
    LET channel == turns[t].channel
    IN  /\ turns[t].pc = "waiting"
        /\ locks[channel].holder = 0
        /\ locks[channel].waiters # <<>>
        /\ Head(locks[channel].waiters) = t
        /\ locks' = [locks EXCEPT ![channel] =
                        [ holder |-> t, waiters |-> Tail(@.waiters) ]]
        /\ turns' = [turns EXCEPT ![t] =
              PreparedTurn(relay_config, history[channel], channel,
                           turns[t].content, rag_would)]
        /\ UNCHANGED <<ragVars, relay_config, history, accepted, http_call,
                       modVars>>

(* How the completion call of a turn ends: with a reply; with one of the   *)
(* errors on_message catches; with another exception or cancellation.      *)
Completions == {"ok", "api_error", "raised"}

(* _query_openrouter ends.  On a reply the two entries of the turn are     *)
(* appended and the reply is sent; on a caught error the apology is sent;  *)
(* otherwise the lock is released as the exception leaves on_message.      *)
QueryDone(t, outcome) ==
    LET channel == turns[t].channel
        entries == << ChatMessage("user", turns[t].content),
                      ChatMessage("assistant", ReplyText) >>
    IN  /\ turns[t].pc = "querying"
        /\ history' = IF outcome = "ok"
                      THEN [history EXCEPT ![channel] =
                              deque_extend(@, entries,
                                           history_maxlen(relay_config))]
                      ELSE history
        /\ turns' = [turns EXCEPT ![t] =
              IF outcome = "ok" THEN [ @ EXCEPT !.pc = "replying" ]
              ELSE IF outcome = "api_error"
              THEN [ @ EXCEPT !.pc = "apologizing" ]
              ELSE NoTurn]
        /\ locks' = IF outcome = "raised"
                    THEN [locks EXCEPT ![channel] = lock_release(@)]
                    ELSE locks
        /\ UNCHANGED <<ragVars, relay_config, accepted, http_call, modVars>>

(* The reply or the apology has been sent (or sending raised): on_message  *)
(* leaves the `async with` and the lock is released.                       *)
ReplySent(t) ==
    /\ turns[t].pc \in {"replying", "apologizing"}
    /\ locks' = [locks EXCEPT ![turns[t].channel] = lock_release(@)]
    /\ turns' = [turns EXCEPT ![t] = NoTurn]
    /\ UNCHANGED <<ragVars, relay_config, history, accepted, http_call,
                   modVars>>

InitRelay ==
    /\ RagIdle
    /\ relay_config \in RelayConfigs
    /\ history = [c \in Channels |-> <<>>]
    /\ locks = [c \in Channels |-> Unlocked]
    /\ turns = [t \in Tasks |-> NoTurn]
    /\ accepted = 0
    /\ http_call = NoHttpCall
    /\ warn_file = NoWarnFile
    /\ warn_lock = Unlocked
    /\ warn_calls = [t \in Tasks |-> NoWarnCall]

(* What retrieve_context could return under the configuration. *)
RagWould == IF relay_config.rag_enabled THEN RagContexts ELSE {""}

NextRelay ==
    \/ \E t \in Tasks, c \in Channels, x \in UserTexts, w \in RagWould :
          OnMessage(t, c, x, w)
    \/ \E t \in Tasks, w \in RagWould : LockAcquired(t, w)
    \/ \E t \in Tasks, o \in Completions : QueryDone(t, o)
    \/ \E t \in Tasks : ReplySent(t)

(* The message handlers of the bot, interleaved at their awaits. *)
SpecRelay == InitRelay /\ [][NextRelay]_vars

(***************************************************************************)
(* OpenRouterClient.query_chat                                             *)
(***************************************************************************)
(* stop_after_attempt(3) *)
MaxAttempts == 3

(* How one HTTP attempt ends: a success response with a choice, with no    *)
(* choices or with a body that does not validate; an error status; a       *)
(* timeout or another transport error raised by httpx.                     *)
Responses ==
    { "ok", "no_choices", "bad_body", "429", "401", "403", "500", "400",
      "timeout", "request_error" }

(* _handle_error(response): the exception raised for an error status. *)
handle_error(response) ==
    IF response = "429" THEN "RateLimitError"
    ELSE IF response \in {"401", "403"} THEN "AuthError"
    ELSE "APIError"

(* One run of the body of query_chat: the content returned or the          *)
(* exception that leaves it.                                               *)
query_chat_once(response) ==
    IF response = "timeout" THEN Raise("TimeoutError")
    ELSE IF response = "request_error" THEN Raise("APIError")
    ELSE IF response \in {"429", "401", "403", "500", "400"}
    THEN Raise(handle_error(response))
    ELSE IF response = "bad_body" THEN Raise("ValidationError")
    ELSE IF response = "no_choices" THEN Raise("APIError")
    ELSE Return(ReplyText)

(* Variant: every error of the client is retried. *)
should_retry_AnyClientError(error) ==
    error \in {"RateLimitError", "TimeoutError", "APIError", "AuthError"}

(* retry_if_exception_type((RateLimitError, TimeoutError, APIError)):      *)
(* AuthError and ValidationError are not subclasses of any of them.        *)
should_retry(error) ==
    error \in {"RateLimitError", "TimeoutError", "APIError"}

(* query_chat is called: the first attempt is about to be made. *)
QueryChat ==
    /\ http_call.pc \in {"idle", "returned", "raised"}
    /\ http_call' = [ NoHttpCall EXCEPT !.pc = "attempting" ]
    /\ UNCHANGED <<ragVars, relayVars, modVars>>

(* One attempt ends.  The content is returned; or the exception is one     *)
(* that is retried and attempts are left, and the call sleeps before the   *)
(* next one; or the exception is raised to the caller (reraise=True).      *)
HttpAttempt(response) ==
    LET got == query_chat_once(response)
        made == Append(http_call.attempts, response)
    IN  /\ http_call.pc = "attempting"
        /\ http_call' =
              IF ~got.raised
              THEN [ http_call EXCEPT !.pc = "returned", !.attempts = made,
                                      !.value = got.value ]
              ELSE IF should_retry(got.error) /\ Len(made) < MaxAttempts
              THEN [ http_call EXCEPT !.pc = "sleeping", !.attempts = made ]
              ELSE [ http_call EXCEPT !.pc = "raised", !.attempts = made,
                                      !.raised = got.error ]
        /\ UNCHANGED <<ragVars, relayVars, modVars>>

(* The wait between two attempts is over. *)
RetryAfterWait ==
    /\ http_call.pc = "sleeping"
    /\ http_call' = [ http_call EXCEPT !.pc = "attempting" ]
    /\ UNCHANGED <<ragVars, relayVars, modVars>>

InitHttp ==
    /\ RagIdle
    /\ BotIdle

NextHttp ==
    \/ QueryChat
    \/ \E r \in Responses : HttpAttempt(r)
    \/ RetryAfterWait

(* Calls of query_chat on one client, one after the other. *)
SpecHttp == InitHttp /\ [][NextHttp]_vars

(***************************************************************************)
(* ModerationLogger.warn_user                                              *)
(***************************************************************************)
(* The file as json.dumps wrote it, holding the given numbers of warnings. *)
WarnsFile(warns) == [ kind |-> "valid", warns |-> warns ]

(* The file opened for writing and closed with nothing written. *)
EmptyWarnFile == [ kind |-> "empty", warns |-> NoWarns ]

(* The file with a part of the JSON text written. *)
PartialWarnFile == [ kind |-> "partial", warns |-> NoWarns ]

(* The warnings files a logger can find when it is constructed: none, or   *)
(* one written by an earlier run.                                          *)
FoundWarnFiles ==
    { NoWarnFile } \cup { WarnsFile(w) : w \in [WarnedUsers -> 0..1] }

(* What the read part of warn_user yields: the warnings loaded, or the     *)
(* exception raised.  io is whether the file system serves the read.       *)
read_warns(file, io) ==
    IF file.kind = "absent" THEN Return(NoWarns)
    ELSE IF io # "ok" THEN Raise("OSError")
    ELSE IF file.kind = "empty" THEN Return(NoWarns)
    ELSE IF file.kind = "partial" THEN Raise("JSONDecodeError")
    ELSE Return(file.warns)

(* How the write part can end: written; open(..., "w") fails and the file  *)
(* is untouched; the write or the close fails after the open truncated the *)
(* file, leaving nothing or a part of the text.                            *)
WriteOutcomes == {"ok", "open_fails", "write_fails", "write_partial"}

(* The file after the write part of warn_user. *)
written_file(file, warns, outcome) ==
    IF outcome = "ok" THEN WarnsFile(warns)
    ELSE IF outcome = "open_fails" THEN file
    ELSE IF outcome = "write_fails" THEN EmptyWarnFile
    ELSE PartialWarnFile

(* The call of task t ends with the given count; leaving the `async with`  *)
(* releases the lock.                                                      *)
WarnReturns(t, count) ==
    /\ warn_calls' = [warn_calls EXCEPT ![t] =
          [ @ EXCEPT !.pc = "done", !.warns = NoWarns, !.result = count ]]
    /\ warn_lock' = lock_release(warn_lock)

(* warn_user(user_id, ...) is called: it takes _warn_lock or waits for it. *)
WarnUser(t, user) ==
    /\ warn_calls[t].pc \in {"idle", "done"}
    /\ StoredWarns(user)
         + Cardinality({ s \in Tasks :
                           /\ warn_calls[s].pc \in {"waiting", "reading",
                                                    "writing"}
                           /\ warn_calls[s].user = user }) < MaxWarns
    /\ IF lock_free(warn_lock)
       THEN /\ warn_lock' = [ warn_lock EXCEPT !.holder = t ]
            /\ warn_calls' = [warn_calls EXCEPT ![t] =
                  [ NoWarnCall EXCEPT !.pc = "reading", !.user = user ]]
       ELSE /\ warn_lock' = [ warn_lock EXCEPT !.waiters = Append(@, t) ]
            /\ warn_calls' = [warn_calls EXCEPT ![t] =
                  [ NoWarnCall EXCEPT !.pc = "waiting", !.user = user ]]
    /\ UNCHANGED <<ragVars, relayVars, http_call, warn_file>>

(* The first waiter of the released lock takes it. *)
WarnLockAcquired(t) ==
    /\ warn_calls[t].pc = "waiting"
    /\ warn_lock.holder = 0
    /\ warn_lock.waiters # <<>>
    /\ Head(warn_lock.waiters) = t
    /\ warn_lock' = [ holder |-> t, waiters |-> Tail(warn_lock.waiters) ]
    /\ warn_calls' = [warn_calls EXCEPT ![t].pc = "reading"]
    /\ UNCHANGED <<ragVars, relayVars, http_call, warn_file>>

(* The file is looked up and read, and the new warning is appended to the  *)
(* user's list in memory; on OSError or JSONDecodeError the call returns 0.*)
WarnRead(t, io) ==
    LET got == read_warns(warn_file, io)
        user == warn_calls[t].user
    IN  /\ warn_calls[t].pc = "reading"
        /\ IF got.raised
           THEN WarnReturns(t, 0)
           ELSE /\ warn_calls' = [warn_calls EXCEPT ![t] =
                      [ @ EXCEPT !.pc = "writing",
                                 !.warns = [got.value EXCEPT
                                              ![user] = @ + 1] ]]
                /\ UNCHANGED warn_lock
        /\ UNCHANGED <<ragVars, relayVars, http_call, warn_file>>

(* The file is opened for writing and the warnings are written; the call   *)
(* returns the length of the user's list, or 0 on OSError.                 *)
WarnWrite(t, outcome) ==
    /\ warn_calls[t].pc = "writing"
    /\ warn_file' = written_file(warn_file, warn_calls[t].warns, outcome)
    /\ WarnReturns(t, IF outcome = "ok"
                      THEN warn_calls[t].warns[warn_calls[t].user] ELSE 0)
    /\ UNCHANGED <<ragVars, relayVars, http_call>>

InitWarn ==
    /\ RagIdle
    /\ relay_config = [ rag_enabled |-> FALSE, system_prompt |-> "sys",
                        max_turns |-> 6 ]
    /\ history = [c \in Channels |-> <<>>]
    /\ locks = [c \in Channels |-> Unlocked]
    /\ turns = [t \in Tasks |-> NoTurn]
    /\ accepted = 0
    /\ http_call = NoHttpCall
    /\ warn_file \in FoundWarnFiles
    /\ warn_lock = Unlocked
    /\ warn_calls = [t \in Tasks |-> NoWarnCall]

NextWarn ==
    \/ \E t \in Tasks, u \in WarnedUsers : WarnUser(t, u)
    \/ \E t \in Tasks : WarnLockAcquired(t)
    \/ \E t \in Tasks, io \in {"ok", "fails"} : WarnRead(t, io)
    \/ \E t \in Tasks, o \in WriteOutcomes : WarnWrite(t, o)

(* The warn commands of the bot, interleaved at their awaits. *)
SpecWarn == InitWarn /\ [][NextWarn]_vars

TypeOK ==
    /\ <<config[1], config[2], openai_client>> \in Setups
    /\ processed_hashes \subseteq { get_document_hash(c) : c \in Contents }
    /\ \A t \in Tasks : calls[t].pc \in {"idle", "embedding", "returned", "cancelled", "raised"}


(***************************************************************************)
(* Properties                                                              *)
(***************************************************************************)
(* Task t enters add_document in this step; calls'[t].file is its file. *)
BeginStep(t) ==
    /\ ~InFlight(t)
    /\ calls'[t] # calls[t]
    /\ calls'[t].pc \in {"embedding", "returned", "raised"}

(* The call of task t ends in this step at the await of a chunk store. *)
ResumeReturn(t) == InFlight(t) /\ calls'[t].pc = "returned"

FileHash(file) == get_document_hash(file.content)

IsText(file) == file.kind = "text" /\ Strip(file.content) # <<>>

(* C1: with one add_document call in flight at a time on one orchestrator, *)
(* once a call has succeeded for content with hash h, every later call     *)
(* whose text hashes to h returns duplicate=true and leaves the store      *)
(* unchanged, and no second call reports success for h.                    *)
C1_SerialDuplicateRejected ==
    [][\A t \in Tasks :
         /\ (BeginStep(t) /\ IsText(calls'[t].file)
               /\ FileHash(calls'[t].file) \in succeeded)
            => /\ calls'[t].pc = "returned"
               /\ calls'[t].result.duplicate
               /\ ~calls'[t].result.success
               /\ store' = store
         /\ (calls'[t] # calls[t] /\ calls'[t].pc = "returned"
               /\ calls'[t].result.success)
            => calls'[t].result.content_hash \notin succeeded
      ]_vars

C1_Witness ==
    \E t \in Tasks :
        /\ calls[t].pc = "returned"
        /\ calls[t].result.duplicate
        /\ FileHash(calls[t].file) \in succeeded
        /\ RecordsWithHash(store, FileHash(calls[t].file)) # {}

(* C2: whenever no add_document call is in flight, a content hash is in    *)
(* the Processed-Hash Set iff the store holds a record with that hash.     *)
C2_HashSetMatchesStore ==
    (\A t \in Tasks : ~InFlight(t))
    => \A c \in Contents :
          get_document_hash(c) \in processed_hashes
          <=> RecordsWithHash(store, get_document_hash(c)) # {}

(* C3: when add_document succeeds for a document of N chunks, the store    *)
(* holds exactly N records with its content hash, with chunk_index 0..N-1  *)
(* and total_chunks = N, and chunks_stored is the number of those records. *)
C3_OneRecordPerChunk ==
    [][\A t \in Tasks :
         (ResumeReturn(t) /\ calls'[t].result.success)
         => LET r == calls'[t].result
                recs == RecordsWithHash(store', r.content_hash)
            IN  /\ Cardinality(recs) = r.total_chunks
                /\ { store'[k].chunk_index : k \in recs } = 0..(r.total_chunks - 1)
                /\ \A k \in recs : store'[k].total_chunks = r.total_chunks
                /\ r.chunks_stored = Cardinality(recs)
      ]_vars

(* C4: the result of a call carries duplicate=true exactly when the call   *)
(* was rejected by the hash check; no other outcome carries it.            *)
C4_DuplicateFlagOnlyOnDuplicate ==
    [][\A t \in Tasks :
         (calls'[t] # calls[t] /\ calls'[t].pc = "returned")
         => (calls'[t].result.duplicate
             <=> /\ ~InFlight(t)
                 /\ IsText(calls'[t].file)
                 /\ FileHash(calls'[t].file) \in processed_hashes)
      ]_vars

C4_Witness ==
    \E t, u \in Tasks :
        /\ calls[t].pc = "returned" /\ calls[t].result.duplicate
        /\ calls[u].pc = "returned" /\ ~calls[u].result.success
        /\ ~calls[u].result.duplicate
        /\ calls[u].result.error = "Error generating OpenAI embedding"

(* C5: a call never raises; a returned call is in exactly one of the three *)
(* outcomes committed, duplicate-rejected, failed with a non-empty error.  *)
C5_AlwaysStructuredResult ==
    \A t \in Tasks :
        /\ calls[t].pc # "raised"
        /\ calls[t].pc = "returned"
           => LET r == calls[t].result
              IN  Cardinality({ k \in 1..3 :
                      \/ k = 1 /\ r.success
                      \/ k = 2 /\ r.duplicate
                      \/ k = 3 /\ ~r.success /\ ~r.duplicate /\ r.error # "" }) = 1

C5_Witness ==
    \E t, u \in Tasks :
        /\ calls[t].pc = "returned" /\ calls[t].result.error = "index error"
        /\ calls[u].pc = "returned"
        /\ calls[u].result.error = "Error reading text file"


(* A step that constructs a new orchestrator over the collection. *)
ConstructStep ==
    /\ calls' = [t \in Tasks |-> IdleCall]
    /\ succeeded' = {}
    /\ processed_hashes' \subseteq load_existing_hashes(store)

(* C6: within a call no chunk is written before the content hash has been  *)
(* computed and found absent from the Processed-Hash Set, the hash enters  *)
(* the set only when the store call for the last chunk has returned, and a *)
(* call that reported success has its hash in the set.                     *)
C6_StepsOrdered ==
    /\ [](\A t \in Tasks :
             (calls[t].pc = "returned" /\ calls[t].result.success)
             => calls[t].result.content_hash \in processed_hashes)
    /\ [][/\ \A t \in Tasks :
               (~InFlight(t) /\ calls'[t].pc = "embedding")
               => /\ calls'[t].content_hash = FileHash(calls'[t].file)
                  /\ calls'[t].content_hash \notin processed_hashes
                  /\ store' = store
          /\ \A id \in StoreIds(store') \ StoreIds(store) :
               \E t \in Tasks :
                  /\ InFlight(t)
                  /\ calls[t].content_hash # NoHash
                  /\ id = HashId(calls[t].content_hash)
          /\ \A h \in processed_hashes' \ processed_hashes :
               \/ ConstructStep
               \/ \E t \in Tasks :
                     /\ ResumeReturn(t) /\ calls'[t].result.success
                     /\ calls[t].content_hash = h
                     /\ calls[t].i + 1 = Len(calls[t].chunks)
                     /\ Len(calls[t].stored_ids) = calls[t].i
       ]_vars

C6_Witness ==
    \E t \in Tasks :
        /\ calls[t].pc = "returned" /\ calls[t].result.success
        /\ calls[t].result.total_chunks = 2
        /\ calls[t].result.content_hash \in processed_hashes

(* C7: when the store call for chunk k fails, the call returns             *)
(* success=false, the store keeps the records written so far, the hash is  *)
(* not added to the Processed-Hash Set, and the loop only ever goes on to  *)
(* the next chunk after a store call that returned.                        *)
C7_FailedChunkNoRollback ==
    [][\A t \in Tasks :
         InFlight(t)
         => /\ (calls'[t].pc = "returned" /\ ~calls'[t].result.success)
               => /\ store' = store
                  /\ processed_hashes' = processed_hashes
                  /\ calls'[t].result.error # ""
                  /\ ~calls'[t].result.duplicate
            /\ (calls'[t] # calls[t] /\ calls'[t].pc = "embedding")
               => /\ calls'[t].i = calls[t].i + 1
                  /\ Len(calls'[t].stored_ids) = calls'[t].i
                  /\ calls'[t].i < Len(calls'[t].chunks)
      ]_vars

C7_Witness ==
    \E t \in Tasks :
        /\ calls[t].pc = "returned"
        /\ calls[t].result.error = "Error generating OpenAI embedding"
        /\ \E h \in partial :
              /\ RecordsWithHash(store, h) # {}
              /\ h \notin processed_hashes

(* The retry property of C8 for the hashes in `left`: a call for such a    *)
(* hash is not rejected as duplicate and starts the chunk loop at chunk 0  *)
(* of the whole document, and when it returns success a store call has     *)
(* returned for every chunk and the hash is in the Processed-Hash Set.     *)
RetryStoresAgain(left) ==
    \A t \in Tasks :
        /\ (BeginStep(t) /\ IsText(calls'[t].file)
              /\ FileHash(calls'[t].file) \in left)
           => /\ ~calls'[t].result.duplicate
              /\ calls'[t].pc = "embedding"
              /\ calls'[t].i = 0
              /\ calls'[t].stored_ids = <<>>
              /\ calls'[t].chunks =
                    chunk_text(calls'[t].file.content, config[1], config[2])
        /\ (ResumeReturn(t) /\ calls'[t].result.success
              /\ calls[t].content_hash \in left)
           => /\ calls'[t].result.chunks_stored = Len(calls[t].chunks)
              /\ Len(calls[t].stored_ids) + 1 = Len(calls[t].chunks)
              /\ calls[t].content_hash \in processed_hashes'

(* C8 as stated: after a call that was cancelled or failed having written  *)
(* a chunk, a retry with the same content is not rejected as a duplicate,  *)
(* stores every chunk again and on completing records the hash.            *)
C8_RetryAfterPartial_AsStated == [][RetryStoresAgain(partial \cup stale)]_vars

(* C8 amended: the same, for a retry on the orchestrator instance on which *)
(* the call was cancelled or failed, while no call of that instance has    *)
(* succeeded for the content.                                              *)
C8_RetryOnSameOrchestrator == [][RetryStoresAgain(partial)]_vars

(* A retry in flight: the only task that has called add_document since    *)
(* construction stores chunk 1 again of a hash it left partial before.     *)
C8_Witness ==
    \E t \in Tasks, h \in partial :
        /\ calls[t].pc = "embedding"
        /\ calls[t].content_hash = h
        /\ calls[t].i = 1
        /\ RecordsWithHash(store, h) # {}
        /\ \A u \in Tasks \ {t} : calls[u].pc = "idle"

(* C9: when two interleaved calls for identical content have both passed   *)
(* the duplicate check and both returned success, the store holds          *)
(* duplicate chunk records for that content hash.                          *)
C9_RaceStoresDuplicateChunkSets ==
    [][\A t, u \in Tasks :
         (/\ t # u
          /\ ResumeReturn(t) /\ calls'[t].result.success
          /\ calls[u].pc = "returned" /\ calls[u].result.success
          /\ calls[u].result.content_hash = calls'[t].result.content_hash)
         => \E j, k \in RecordsWithHash(store', calls'[t].result.content_hash) :
               j # k /\ store'[j].chunk_index = store'[k].chunk_index
      ]_vars

(* C10: a call that ends before chunk storage (missing file, extraction    *)
(* error, no text after trimming, duplicate hash) returns without writing  *)
(* to the store and leaves the Processed-Hash Set unchanged.               *)
EndsEarly(file, hashes) ==
    \/ file.kind \in {"missing", "unreadable"}
    \/ file.kind = "text" /\ Strip(file.content) = <<>>
    \/ file.kind = "text" /\ FileHash(file) \in hashes

C10_EarlyEndWritesNothing ==
    [][\A t \in Tasks :
         (BeginStep(t) /\ EndsEarly(calls'[t].file, processed_hashes))
         => /\ calls'[t].pc = "returned"
            /\ ~calls'[t].result.success
            /\ store' = store
            /\ processed_hashes' = processed_hashes
      ]_vars

C10_Witness ==
    \E t, u \in Tasks :
        /\ calls[t].pc = "returned"
        /\ calls[t].result.error = "Document contains no extractable text"
        /\ calls[u].pc = "returned" /\ calls[u].result.duplicate
        /\ store # <<>>
        /\ processed_hashes # {}

(* A new orchestrator is constructed in this step: every call is gone and  *)
(* the collection is as it was.                                            *)
ConstructedOver ==
    /\ calls' = [t \in Tasks |-> IdleCall]
    /\ store' = store

(* C11: an orchestrator constructed over an existing store has in its      *)
(* Processed-Hash Set every content_hash that occurs in the records of the *)
(* store, whatever the size of the store, or the empty set when loading    *)
(* the records failed.                                                     *)
C11_LoadsEveryStoredHash ==
    [][ConstructedOver
       => \/ processed_hashes' = load_existing_hashes(store)
          \/ processed_hashes' = {}
      ]_vars

(* The last call was retrieve_context / search_similar and has returned. *)
Retrieved == ret.op = "retrieve_context" /\ ~ret.raised

Searched == ret.op = "search_similar" /\ ~ret.raised

(* similarity of a candidate of the index: 1 - distance / 2 *)
HitScore(cand) == SimScale - cand.distance

(* The candidates of the index at or above a threshold, in index order. *)
Hits(cands, threshold) ==
    SelectSeq(cands, LAMBDA cand : HitScore(cand) >= threshold)

(* The texts in a returned context string: what follows the label, cut at  *)
(* the separators.                                                         *)
RECURSIVE SplitContext(_, _)
SplitContext(s, cur) ==
    IF s = <<>> THEN << cur >>
    ELSE IF Head(s) = ContextSeparator
         THEN << cur >> \o SplitContext(Tail(s), <<>>)
         ELSE SplitContext(Tail(s), Append(cur, Head(s)))

ContextTexts(value) ==
    IF value = <<>> THEN <<>> ELSE SplitContext(Tail(value), <<>>)

RECURSIVE SumTokens(_, _)
SumTokens(texts, tokenizer) ==
    IF texts = <<>> THEN 0
    ELSE count_tokens(Head(texts), tokenizer) + SumTokens(Tail(texts), tokenizer)

(* C12: the token counts of the texts in the string retrieve_context       *)
(* returns sum to at most max_tokens, and when every candidate at or above *)
(* the threshold has alone more tokens than max_tokens the string is       *)
(* empty.                                                                  *)
C12_ContextWithinBudget ==
    Retrieved
    => LET hits == Hits(ret.cands, QueryConfig.similarity_threshold)
       IN  /\ SumTokens(ContextTexts(ret.value), ret.tokenizer) <= ret.max_tokens
           /\ (\A i \in 1..Len(hits) :
                  count_tokens(hits[i].content, ret.tokenizer) > ret.max_tokens)
              => ret.value = <<>>

(* C13: retrieve_context returns the empty string for an empty or          *)
(* whitespace-only query, without calling the store, and when the search   *)
(* yields no candidate at or above the configured similarity threshold.    *)
C13_EmptyContext ==
    ret.op = "retrieve_context"
    => /\ Strip(ret.query) = <<>>
          => ret.value = <<>> /\ ~ret.searched /\ ~ret.raised
       /\ Hits(ret.cands, QueryConfig.similarity_threshold) = <<>>
          => ret.value = <<>> /\ ~ret.raised

C13_Witness ==
    /\ Retrieved
    /\ Strip(ret.query) # <<>>
    /\ ret.outcome = "ok"
    /\ ret.searched
    /\ Len(ret.cands) = 2
    /\ Hits(ret.cands, QueryConfig.similarity_threshold) = <<>>
    /\ ret.value = <<>>

(* C14: the texts of a non-empty context are a prefix of the candidates at *)
(* or above the threshold taken in an order of descending similarity, each *)
(* text whole, after the label and joined by the separator; the prefix     *)
(* ends at the first candidate that would exceed the budget.               *)
C14_ContextIsSortedPrefix ==
    (Retrieved /\ ret.value # <<>>)
    => LET hits == Hits(ret.cands, QueryConfig.similarity_threshold)
           texts == ContextTexts(ret.value)
           k == Len(texts)
       IN  /\ Head(ret.value) = ContextLabel
           /\ k >= 1 /\ k <= Len(hits)
           /\ \E p \in [ 1..k -> 1..Len(hits) ] :
                 /\ \A i, j \in 1..k : i # j => p[i] # p[j]
                 /\ \A i \in 1..k : texts[i] = hits[p[i]].content
                 /\ \A i, j \in 1..k :
                       i < j => HitScore(hits[p[i]]) >= HitScore(hits[p[j]])
                 /\ \A i \in 1..k, n \in 1..Len(hits) :
                       (\A j \in 1..k : p[j] # n)
                       => HitScore(hits[p[i]]) >= HitScore(hits[n])
                 /\ k < Len(hits)
                    => \E n \in 1..Len(hits) :
                          /\ \A j \in 1..k : p[j] # n
                          /\ SumTokens(texts, ret.tokenizer)
                             + count_tokens(hits[n].content, ret.tokenizer)
                             > ret.max_tokens
           /\ \A i \in 1..k :
                 SumTokens(SubSeq(texts, 1, i), ret.tokenizer) <= ret.max_tokens

(* C15: retrieve_context never raises; when the embedding or the index     *)
(* query fails, or no embedding client is configured, it returns the empty *)
(* string; it leaves the store and the Processed-Hash Set as they were.    *)
C15_RetrieveNeverRaises ==
    /\ [](ret.op = "retrieve_context"
          => /\ ~ret.raised
             /\ (ret.outcome # "ok" \/ ~openai_client) => ret.value = <<>>)
    /\ [][ret'.op = "retrieve_context"
          => store' = store /\ processed_hashes' = processed_hashes]_vars

C15_Witness ==
    /\ Retrieved
    /\ ret.outcome = "index_error"
    /\ openai_client
    /\ ret.searched
    /\ store # <<>>
    /\ ret.value = <<>>

(* C16: search, list and get_collection_info hand every embedding or index *)
(* error to their caller as an empty or error-shaped result, never as an   *)
(* exception.                                                              *)
C16_ReadsNeverRaise ==
    ret.op \in {"search_similar", "list_documents", "get_collection_info"}
    => ~ret.raised

(* C17: no result of search has a similarity_score below the threshold,    *)
(* the score of a result being that of the candidate at its rank.          *)
C17_ResultsMeetThreshold ==
    Searched
    => \A i \in 1..Len(ret.value) :
          /\ ret.value[i].similarity_score >= ret.threshold
          /\ ret.value[i].rank \in 1..Len(ret.cands)
          /\ ret.value[i].similarity_score
             = HitScore(ret.cands[ret.value[i].rank])

C17_Witness ==
    /\ Searched
    /\ ret.threshold = 18
    /\ Len(ret.cands) = 2
    /\ Len(ret.value) = 1
    /\ \E i \in 1..Len(ret.cands) : HitScore(ret.cands[i]) = 14

(* The index handed its candidates back in order of non-decreasing         *)
(* distance.                                                               *)
InDistanceOrder(cands) ==
    \A i, j \in 1..Len(cands) : i < j => cands[i].distance <= cands[j].distance

C19_ScoreInUnitInterval ==
    (Searched /\ ret.threshold \in 0..SimScale)
    => \A i \in 1..Len(ret.value) :
          /\ ret.value[i].similarity_score >= 0
          /\ ret.value[i].similarity_score <= SimScale

(* A search at threshold 0 over candidates one of which is further away    *)
(* than 2.                                                                 *)
C19_Witness ==
    /\ Searched
    /\ ret.threshold = 0
    /\ Len(ret.cands) = 2
    /\ Len(ret.value) = 1
    /\ \E i \in 1..Len(ret.cands) : ret.cands[i].distance > SimScale

(* C20: store_document raises when the text is empty after trimming, when  *)
(* there is neither an embed_func nor an embedding client, and when the    *)
(* embedding fails, and the collection is then as it was.                  *)
C20_StoreFailsWithoutWriting ==
    [][(/\ ret'.op = "store_document"
        /\ \/ Strip(ret'.text) = <<>>
           \/ ret'.embed_func = "none" /\ ~openai_client
           \/ ret'.outcome = "embed_error")
       => /\ ret'.raised
          /\ ret'.error # ""
          /\ store' = store
      ]_vars

C20_Witness ==
    /\ ret.op = "store_document"
    /\ ret.raised
    /\ ret.outcome = "embed_error"
    /\ Strip(ret.text) # <<>>
    /\ store # <<>>
    /\ \A k \in 1..Len(store) : store[k].text # ret.text

(***************************************************************************)
(* Store maintenance                                                       *)
(***************************************************************************)
StoredCall == ret'.op = "store_document" /\ ~ret'.raised

CleanedUp == ret'.op = "cleanup_duplicates" /\ ~ret'.raised

(* Position k holds a record that is not the first listed of its hash. *)
NotFirstOfHash(coll, k) ==
    /\ coll[k].content_hash # NoHash
    /\ \E j \in 1..(k - 1) : coll[j].content_hash = coll[k].content_hash

HashesOf(coll) == { coll[k].content_hash : k \in 1..Len(coll) } \ {NoHash}

(* Three records share one content hash and two more share another. *)
ThreeAndTwo(coll) ==
    /\ Len(coll) = 5
    /\ \A k \in 1..5 : coll[k].content_hash # NoHash
    /\ { Cardinality(RecordsWithHash(coll, h)) : h \in HashesOf(coll) } = {3, 2}

(* C21: after any sequence of store and delete operations, a               *)
(* store_document call whose metadata has no id returns an id that no      *)
(* record of the store carries, and the store holds one record more.       *)
C21_DefaultIdIsFresh ==
    [][ (StoredCall /\ ret'.meta_id = NoId)
            => /\ ret'.value \notin StoreIds(store)
               /\ Len(store') = Len(store) + 1 ]_vars

(* C22: delete_document of an id that is not in the store returns False,   *)
(* delete_by_metadata with a filter that matches no record returns 0, and  *)
(* neither raises nor changes the store.                                   *)
C22_DeleteOfAbsentIsFalseOrZero ==
    [][ /\ (ret'.op = "delete_document" /\ ret'.doc_id \notin StoreIds(store))
            => /\ ~ret'.raised
               /\ ret'.value = FALSE
               /\ store' = store
        /\ (/\ ret'.op = "delete_by_metadata"
            /\ RecordsWithHash(store, ret'.filter_hash) = {})
            => /\ ~ret'.raised
               /\ ret'.value = 0
               /\ store' = store ]_vars

(* C23 as stated: cleanup_duplicates on a store of three records sharing   *)
(* one content hash and two sharing another reports duplicates_removed = 2 *)
(* and unique_documents = 2.                                               *)
C23_ThreeAndTwo_AsStated ==
    [][ (CleanedUp /\ ret'.list_ok /\ ThreeAndTwo(store))
            => /\ ret'.value.duplicates_removed = 2
               /\ ret'.value.unique_documents = 2 ]_vars

(* C23: cleanup_duplicates on a store of three records sharing one content *)
(* hash and two sharing another, once it has listed them, reports          *)
(* unique_documents = 2 and for duplicates_removed the number of records   *)
(* that are not the first of their hash and carry an id in their metadata: *)
(* 3 when every record carries one (two of the group of three and one of   *)
(* the group of two).                                                      *)
C23_ThreeAndTwo ==
    [][ (CleanedUp /\ ret'.list_ok /\ ThreeAndTwo(store))
            => /\ ret'.value.unique_documents = 2
               /\ ret'.value.duplicates_removed =
                      3 - Cardinality({ k \in 1..5 :
                                          /\ NotFirstOfHash(store, k)
                                          /\ store[k].meta_id = NoId })
               /\ (\A k \in 1..5 : store[k].meta_id # NoId)
                      => ret'.value.duplicates_removed = 3 ]_vars

(* cleanup_duplicates has run on the five records, all stored with an id,  *)
(* and has reported 3 removed and 2 unique; two records are left.          *)
C23_Witness ==
    /\ ret.op = "cleanup_duplicates"
    /\ ret.list_ok
    /\ ret.listed = 5
    /\ ret.failing = {}
    /\ ret.value.duplicates_removed = 3
    /\ ret.value.unique_documents = 2
    /\ Len(store) = 2
    /\ \A k \in 1..2 : store[k].meta_id # NoId

(* C24: after cleanup_duplicates has completed without error, of every     *)
(* content hash that had a record exactly one record is left, the first    *)
(* listed one, and the records without a content hash are all still there. *)
C24_CleanupKeepsFirstOfEachHash ==
    [][ (CleanedUp /\ ret'.value.success)
            => /\ \A h \in HashesOf(store) :
                    LET first == CHOOSE k \in RecordsWithHash(store, h) :
                                    \A j \in RecordsWithHash(store, h) : k <= j
                    IN  /\ Cardinality(RecordsWithHash(store', h)) = 1
                        /\ \A k \in RecordsWithHash(store', h) :
                              store'[k] = store[first]
               /\ \A k \in 1..Len(store) :
                     store[k].content_hash = NoHash
                        => \E j \in 1..Len(store') : store'[j] = store[k] ]_vars

(***************************************************************************)
(* Chunking                                                                *)
(***************************************************************************)
Chunked == ret.op = "chunk_text" /\ ~ret.raised

(* The window of iteration k reaches from its start to start + chunk_size. *)
EdgeBeforeEnd(k) == ret.windows[k].start + ret.chunk_size < Len(ret.text)

(* 0-based positions of the non-whitespace characters in text[a:b]. *)
InkIn(text, a, b) ==
    { p \in a..(Min(b, Len(text)) - 1) : ~IsWS(text[p + 1]) }

(* text[a:b] without the whitespace at its two ends. *)
Trimmed(text, a, b) ==
    LET ink == InkIn(text, a, b)
    IN  IF ink = {} THEN <<>>
        ELSE Slice(text,
                   CHOOSE p \in ink : \A q \in ink : p <= q,
                   (CHOOSE p \in ink : \A q \in ink : q <= p) + 1)

(* The highest 0-based index in `window` at which one of `subs` begins,    *)
(* -1 if there is none. *)
LastOf(window, subs) ==
    LET hits == { i \in 0..(Len(window) - 1) :
                    \E sub \in subs :
                       /\ i + Len(sub) <= Len(window)
                       /\ SubSeq(window, i + 1, i + Len(sub)) = sub }
    IN  IF hits = {} THEN -1
        ELSE CHOOSE i \in hits : \A j \in hits : j <= i

SentenceEnds ==
    { <<".", " ">>, <<".", "\n">>, <<"!", " ">>, <<"?", "\n">>,
      <<"\n", "\n">> }

(* The cut the specification gives for a window whose right edge falls     *)
(* before the end of the text: a boundary at 70% (80%) of chunk_size or    *)
(* later is taken.                                                         *)
StatedCut(text, chunk_size, start) ==
    LET window == Slice(text, start, start + chunk_size)
        sentence == LastOf(window, SentenceEnds)
        space == LastOf(window, { <<" ">> })
    IN  IF sentence >= 0 /\ 10 * sentence >= 7 * chunk_size
        THEN start + sentence + 1
        ELSE IF space >= 0 /\ 10 * space >= 8 * chunk_size
        THEN start + space
        ELSE start + chunk_size

(* C25: chunk_text terminates for every text and every accepted pair of    *)
(* parameters: the first window starts at 0, every further window starts   *)
(* at least one character after the one before, the loop has ended when    *)
(* the last window is done, and there are at most as many iterations as    *)
(* the text has characters.                                                *)
C25_ChunkTerminates ==
    Chunked =>
        LET w == ret.windows
        IN  /\ Len(w) <= Len(ret.text)
            /\ w # <<>> => w[1].start = 0
            /\ \A k \in 1..(Len(w) - 1) : w[k + 1].start >= w[k].start + 1
            /\ \A k \in 1..Len(w) : w[k].start < Len(ret.text)
            /\ w # <<>> =>
                  w[Len(w)].end - ret.overlap >= Len(ret.text)
                  \/ w[Len(w)].start + 1 >= Len(ret.text)
            /\ w = <<>> => ret.text = <<>>

(* A call has ended after three iterations or more, in one of which the    *)
(* cut minus the overlap did not pass the window start and the next        *)
(* window started one character on.                                        *)
C25_Witness ==
    /\ Chunked
    /\ Len(ret.windows) >= 3
    /\ \E k \in 1..(Len(ret.windows) - 1) :
          /\ ret.windows[k].end - ret.overlap <= ret.windows[k].start
          /\ ret.windows[k + 1].start = ret.windows[k].start + 1

(* C26: the windows cover the text without gaps: each window starts at or  *)
(* before the cut of the window before it, every character position lies   *)
(* in a window, every chunk is its window without the whitespace at the    *)
(* window's edges, and so every character that is not whitespace is in a   *)
(* chunk; the chunks returned are the non-empty ones in window order.      *)
C26_WindowsCoverText ==
    Chunked =>
        LET w == ret.windows
        IN  /\ \A k \in 1..(Len(w) - 1) : w[k + 1].start <= w[k].end
            /\ \A p \in 0..(Len(ret.text) - 1) :
                  \E k \in 1..Len(w) : w[k].start <= p /\ p < w[k].end
            /\ \A k \in 1..Len(w) :
                  w[k].chunk = Trimmed(ret.text, w[k].start, w[k].end)
            /\ \A p \in InkIn(ret.text, 0, Len(ret.text)) :
                  \E k \in 1..Len(w) :
                     /\ w[k].start <= p /\ p < w[k].end
                     /\ w[k].chunk # <<>>
            /\ ret.value = AppendedChunks(w)

(* A text was cut into overlapping windows, one of which lost whitespace   *)
(* at an edge, and one of them was cut at a boundary inside the window.    *)
C26_Witness ==
    /\ Chunked
    /\ ret.overlap > 0
    /\ \E k \in 1..(Len(ret.windows) - 1) :
          /\ ret.windows[k + 1].start < ret.windows[k].end
          /\ ret.windows[k].end < ret.windows[k].start + ret.chunk_size
    /\ \E k \in 1..Len(ret.windows) :
          /\ ret.windows[k].chunk # <<>>
          /\ Len(ret.windows[k].chunk)
                < Min(ret.windows[k].end, Len(ret.text)) - ret.windows[k].start

(* C27: chunk_text raises, and returns no chunks, exactly when             *)
(* chunk_size <= 0, overlap < 0 or overlap >= chunk_size; every other pair *)
(* is accepted.                                                            *)
C27_ChunkParamsChecked ==
    ret.op = "chunk_text" =>
        /\ ret.raised <=> \/ ret.chunk_size <= 0
                          \/ ret.overlap < 0
                          \/ ret.overlap >= ret.chunk_size
        /\ ret.raised => /\ ret.error # ""
                         /\ ret.value = <<>>
                         /\ ret.windows = <<>>

(* chunk_text was called with chunk_size 1000 and an overlap of 1000 and   *)
(* raised.                                                                 *)
C27_Witness ==
    /\ ret.op = "chunk_text"
    /\ ret.chunk_size = 1000
    /\ ret.overlap = ret.chunk_size
    /\ ret.raised
    /\ ret.error = "overlap must be smaller than chunk_size"

(* C28: a text of 2500 characters chunked with chunk_size 1000 and overlap *)
(* 200 at the raw window edges yields exactly 3 chunks, and in general no  *)
(* chunk is produced after the window whose right edge reaches the end of  *)
(* the text.                                                               *)
C28_NoChunkAfterLastWindow ==
    Chunked =>
        /\ (Len(ret.text) = 2500 /\ ret.chunk_size = 1000 /\ ret.overlap = 200)
              => Len(ret.value) = 3
        /\ \A k \in 1..Len(ret.windows) :
              ret.windows[k].start + ret.chunk_size >= Len(ret.text)
                 => \A j \in (k + 1)..Len(ret.windows) :
                       ret.windows[j].chunk = <<>>

(* C29: a window whose right edge falls before the end of the text is cut  *)
(* at its last sentence boundary if that lies at 70% of chunk_size or      *)
(* later, otherwise at its last space if that lies at 80% or later,        *)
(* otherwise at the window edge; exactly 70% and exactly 80% count.        *)
C29_CutAtStatedBoundary ==
    Chunked =>
        \A k \in 1..Len(ret.windows) :
            EdgeBeforeEnd(k) =>
                ret.windows[k].end =
                    StatedCut(ret.text, ret.chunk_size, ret.windows[k].start)

(* C30: every chunk returned is non-empty, begins and ends with a          *)
(* character that is not whitespace and is at most chunk_size long; a text *)
(* with a character that is not whitespace yields a chunk; the chunks are  *)
(* those add_document stores.                                              *)
C30_ChunksTrimmedAndBounded ==
    Chunked =>
        /\ \A k \in 1..Len(ret.value) :
              LET chunk == ret.value[k]
              IN  /\ chunk # <<>>
                  /\ ~IsWS(chunk[1])
                  /\ ~IsWS(chunk[Len(chunk)])
                  /\ Len(chunk) <= ret.chunk_size
        /\ InkIn(ret.text, 0, Len(ret.text)) # {} => Len(ret.value) >= 1
        /\ ret.value = chunk_text(ret.text, ret.chunk_size, ret.overlap)

(* A text with whitespace at both ends and inside was chunked: a chunk as  *)
(* long as chunk_size and a shorter one, trimmed at a window edge, were    *)
(* returned.                                                               *)
C30_Witness ==
    /\ Chunked
    /\ ret.text # <<>>
    /\ IsWS(ret.text[1])
    /\ IsWS(ret.text[Len(ret.text)])
    /\ \E k \in 1..Len(ret.value) : Len(ret.value[k]) = ret.chunk_size
    /\ \E k \in 1..Len(ret.windows) :
          /\ ret.windows[k].chunk # <<>>
          /\ IsWS(ret.text[ret.windows[k].start + 1])

(***************************************************************************)
(* Cleanup and the Processed-Hash Set; invalid chunk parameters            *)
(***************************************************************************)
(* C31: the duplicates_removed that cleanup_duplicates returns is the      *)
(* number of records the call removed from the store, also when a delete   *)
(* fails or a duplicate has no id in its metadata.                         *)
C31_RemovedCountIsRecordsRemoved ==
    [][ CleanedUp
            => ret'.value.duplicates_removed = Len(store) - Len(store') ]_vars

(* C32: cleanup_duplicates leaves the Processed-Hash Set as it is and      *)
(* every content hash that had a record still has one after it; no step    *)
(* of an orchestrator takes a hash out of its Processed-Hash Set.          *)
C32_CleanupKeepsHashesCovered ==
    [][ /\ ~ConstructStep => processed_hashes \subseteq processed_hashes'
        /\ CleanedUp
            => /\ processed_hashes' = processed_hashes
               /\ \A h \in HashesOf(store) : RecordsWithHash(store', h) # {}
      ]_vars

(* cleanup_duplicates has removed duplicates from a store whose hashes the *)
(* orchestrator had loaded; every hash of the set still has a record.      *)
C32_Witness ==
    /\ ret.op = "cleanup_duplicates"
    /\ ret.list_ok
    /\ ret.listed > Len(store)
    /\ Cardinality(processed_hashes) = 2
    /\ \A h \in processed_hashes : RecordsWithHash(store, h) # {}

(* The configured chunk parameters violate 0 <= chunk_overlap < chunk_size. *)
BadChunkConfig == ~(0 <= config[2] /\ config[2] < config[1])

(* C33: under chunk parameters that violate 0 <= chunk_overlap <           *)
(* chunk_size, an add_document of a text that is not blank and whose hash  *)
(* is not in the Processed-Hash Set returns a failure result, writes       *)
(* nothing to the store and leaves the Processed-Hash Set as it is.        *)
C33_BadChunkConfigFails ==
    [][\A t \in Tasks :
         (/\ BeginStep(t)
          /\ BadChunkConfig
          /\ IsText(calls'[t].file)
          /\ FileHash(calls'[t].file) \notin processed_hashes)
         => /\ calls'[t].pc = "returned"
            /\ ~calls'[t].result.success
            /\ ~calls'[t].result.duplicate
            /\ store' = store
            /\ processed_hashes' = processed_hashes
      ]_vars

(* Under such parameters an add_document of a text has returned the error *)
(* of chunk_text; the store and the Processed-Hash Set are empty.          *)
C33_Witness ==
    /\ BadChunkConfig
    /\ \E t \in Tasks :
          /\ calls[t].pc = "returned"
          /\ IsText(calls[t].file)
          /\ calls[t].result.error = ChunkParamError(config[1], config[2])
    /\ store = <<>>
    /\ processed_hashes = {}

(***************************************************************************)
(* Properties of the relay                                                 *)
(***************************************************************************)
(* The tasks holding a turn between preparing its prompt and leaving the   *)
(* locked section.                                                         *)
InTurn(channel) ==
    { t \in Tasks : /\ turns[t].pc \in {"querying", "replying", "apologizing"}
                    /\ turns[t].channel = channel }

(* The list the text describes for the turn of t: system prompt, retrieved *)
(* context if there is one, history, the user message.                     *)
StatedPayload(t) ==
    (IF relay_config.system_prompt # ""
     THEN << ChatMessage("system", relay_config.system_prompt) >> ELSE <<>>)
    \o (IF relay_config.rag_enabled /\ turns[t].rag_would # ""
        THEN << ChatMessage("system", turns[t].rag_would) >> ELSE <<>>)
    \o history[turns[t].channel]
    \o << ChatMessage("user", turns[t].content) >>

(* C34: with RAG enabled and a non-empty context retrieved for the turn,   *)
(* the list sent to the completion API holds the context as a system       *)
(* message after the system prompt and before the history; when nothing is *)
(* retrieved the list is built without it and the turn proceeds.           *)
C34_ContextInPayload ==
    \A t \in Tasks :
        turns[t].pc = "querying" => turns[t].payload = StatedPayload(t)

(* C35: the query handed to retrieve_context is the text of the message    *)
(* being answered, with or without conversation history.                   *)
C35_QueryIsCurrentMessage ==
    \A t \in Tasks :
        (turns[t].pc = "querying" /\ turns[t].rag_called)
            => turns[t].rag_query = turns[t].content

(* The two entries of the turn of t. *)
TurnEntries(t) ==
    << ChatMessage("user", turns[t].content),
       ChatMessage("assistant", ReplyText) >>

(* The history of a channel after the entries are appended to a buffer of   *)
(* 2 * max_turns entries: the old entries that still fit, then the turn's.  *)
AppendedTo(old, entries) ==
    LET all == old \o entries
        cap == 2 * relay_config.max_turns
    IN  IF Len(all) <= cap THEN all
        ELSE SubSeq(all, Len(all) - cap + 1, Len(all))

(* C36: per channel at most one message is between preparing its prompt    *)
(* and appending to the history; the history of a channel changes only     *)
(* when the completion call of the turn holding its lock succeeded, by the *)
(* two entries of that turn together; a turn whose completion call fails   *)
(* leaves the histories unchanged.                                         *)
C36_TurnsSerializedPerChannel ==
    [][ /\ \A c \in Channels : Cardinality(InTurn(c))' <= 1
        /\ \A c \in Channels :
              history'[c] # history[c] =>
                 \E t \in Tasks :
                    /\ InTurn(c) = {t}
                    /\ turns[t].pc = "querying"
                    /\ turns'[t].pc = "replying"
                    /\ history'[c] = AppendedTo(history[c], TurnEntries(t))
        /\ \A t \in Tasks :
              (turns[t].pc = "querying"
                 /\ turns'[t].pc \in {"apologizing", "idle"})
                 => history' = history ]_vars

(* A turn has appended its entries while another message of the channel    *)
(* waits for the lock.                                                     *)
C36_Witness ==
    \E t \in Tasks, u \in Tasks :
        /\ turns[t].pc = "replying"
        /\ turns[u].pc = "waiting"
        /\ turns[u].channel = turns[t].channel
        /\ history[turns[t].channel] # <<>>

(* C37: every history has even length at most 2 * max_turns and alternates *)
(* user, assistant, starting with a user entry.                            *)
C37_HistoryAlternates ==
    \A c \in Channels :
        /\ Len(history[c]) % 2 = 0
        /\ Len(history[c]) <= 2 * relay_config.max_turns
        /\ \A k \in 1..Len(history[c]) :
              history[c][k].role = IF k % 2 = 1 THEN "user" ELSE "assistant"

(* A turn was appended to a history that was full: the oldest turn was     *)
(* evicted.                                                                *)
C37_Witness ==
    \E t \in Tasks :
        /\ turns[t].pc = "replying"
        /\ Cardinality({ k \in 1..Len(turns[t].payload) :
                           turns[t].payload[k].role = "assistant" })
              = relay_config.max_turns
        /\ Len(history[turns[t].channel]) = 2 * relay_config.max_turns
        /\ history[turns[t].channel][Len(history[turns[t].channel]) - 1]
              = ChatMessage("user", turns[t].content)

(***************************************************************************)
(* Properties of query_chat                                                *)
(***************************************************************************)
(* The attempt outcomes the text says are retried: rate limit, timeout,    *)
(* other API errors.                                                       *)
RetriedResponses == { "429", "timeout", "500", "400", "request_error",
                      "no_choices" }

(* The error the caller sees for the outcome of the last attempt. *)
StatedError(response) ==
    IF response = "429" THEN "RateLimitError"
    ELSE IF response \in {"401", "403"} THEN "AuthError"
    ELSE IF response = "timeout" THEN "TimeoutError"
    ELSE IF response = "bad_body" THEN "ValidationError"
    ELSE "APIError"

WarnDone(t) == warn_calls[t].pc # "done" /\ warn_calls'[t].pc = "done"

(* The tasks inside the read-modify-write of the warnings file. *)
InWarnSection == { t \in Tasks : warn_calls[t].pc \in {"reading", "writing"} }

(* C39: the calls run their read-modify-write one at a time; a successful  *)
(* call for a user returns one more than the number stored for the user    *)
(* when it returns and leaves that number stored, so that k successful     *)
(* calls from n stored return n+1..n+k and leave n+k; a call that fails    *)
(* returns 0; and no step removes a stored warning.                        *)
C39_NoWarningLost ==
    [][ /\ Cardinality(InWarnSection)' <= 1
        /\ \A t \in Tasks :
              WarnDone(t) =>
                 \/ warn_calls'[t].result = 0
                 \/ /\ warn_calls'[t].result
                          = StoredWarns(warn_calls[t].user) + 1
                    /\ StoredWarns(warn_calls[t].user)'
                          = warn_calls'[t].result
        /\ \A u \in WarnedUsers :
              \/ StoredWarns(u)' = StoredWarns(u)
              \/ \E t \in Tasks : /\ WarnDone(t)
                                  /\ warn_calls[t].user = u
                                  /\ warn_calls'[t].result > 0 ]_vars

====
